---------------------------- MODULE Spec2Model ----------------------------
(***************************************************************************)
(* A model of the ofdgo renderer (package ofdgo): the draw-parameter       *)
(* resolver, the multi-page PDF export, the Reader's lazy Doc() load, the  *)
(* font loader, the page interpreter, the repair of embedded fonts, and    *)
(* the geometry of page objects: matrices, number lists, paths, text pens. *)
(*                                                                         *)
(* The module holds several state machines, one per part of the program.   *)
(* Each has its own variables and its own specification; a specification   *)
(* parks the variables of the other machines at their idle values.         *)
(***************************************************************************)
EXTENDS Integers, Sequences, FiniteSets, TLC

VARIABLES
    \* ---- draw-parameter resolver (Renderer.getDrawParam)
    DrawParams,     \* r.DrawParams: id -> DrawParam
    dpPc,           \* "idle" | "enter" | "return" | "done"
    dpStart,        \* the id the outermost call was made with
    dpCur,          \* the id argument of the call being entered
    dpStack,        \* ids of the calls waiting for their base (innermost last)
    visited,        \* the visited map shared by one resolution
    dpRet,          \* the value the last finished call returned
    dpEntered,      \* id -> number of times the call got past the visited test
    dpSteps,        \* number of steps of the current resolution
    \* ---- multi-page PDF export (Renderer.RenderToMultiPagePDF)
    pdfDocErr,      \* r.Reader.Doc() fails
    pdfPages,       \* doc.Pages.Page: per page, what Reader.PageContent gives
    pdfCloseErr,    \* p.Close() reports a write error
    pdfPc,          \* "idle" | "loop" | "finish" | "done"
    pdfI,           \* the loop index i
    pdfP,           \* the *pdf.PDF p: "nil" or "open"
    pdfWritten,     \* indices of the pages rendered into the writer, in order
    pdfResult,      \* what the call returned ("none" while it runs)
    \* ---- Reader and its lazy Doc()
    rdArchive,      \* what the archive holds (fixed for the Reader's life)
    rdDoc,          \* r.doc: 0 (nil) or the number of the Document allocated
    rdDocID,        \* r.OFD.DocBody[0].DocInfo.DocID
    ResMap,         \* r.ResMap
    fontCache,      \* r.fontCache
    drawParamCache, \* r.drawParamCache
    compositeGraphicUnitCache,  \* r.compositeGraphicUnitCache
    Stamps,         \* r.Stamps: page id -> stamps, in registration order
    rdPc,           \* worker -> its position in Doc()
    rdLocal,        \* worker -> the locals of its Doc() call
    rdRet,          \* worker -> what its last call returned
    rdCaller,       \* worker -> the function its Doc() call was made from
    rdLoads,        \* number of Documents allocated so far
    rdProducers,    \* workers that have written the Reader's caches
    rdReturned,     \* some call has returned a Document
    rdCached,       \* some call has returned at the r.doc != nil test
    rdCrashed,      \* the runtime stopped the process (concurrent map writes)
    \* ---- Renderer
    rnReader,       \* the Reader's document tables and the files around it
    rnPage,         \* the page content handed to RenderPageToContext
    FontMap,        \* r.FontMap
    rnCalls,        \* the draw calls the last operation made on its context
    rnDepth,        \* the context's state-stack depth when it returned
    rnWork,         \* font id -> times the font was read, repaired or searched
    rnAsked,        \* font ids loadFont has returned for
    rnOp,           \* the last operation run on the Renderer
    rnFontID,       \* the argument of the last loadFont
    rnText,         \* the argument of the last renderText
    rnRet,          \* what the last loadFont returned
    rnOps,          \* number of calls made on the Renderer
    rnBox,          \* what the last GetPageBox returned
    \* ---- embedded font repair
    ftData,         \* the bytes handed to the operation
    ftFixCmap,      \* the fixCmap argument
    ftFixName,      \* the fixName argument
    ftTables,       \* the tag -> table data map handed to serializeOTF
    ftNominal,      \* nominalWidthX, in units of 1/65536
    ftDef,          \* defaultWidthX, in units of 1/65536
    ftOp,           \* the operation that was run ("none" before it)
    ftOut,          \* what it returned, or that it panicked
    \* ---- page geometry and object drawing
    gmIn,           \* the arguments handed to the operation
    gmOp,           \* the operation that was run ("none" before it)
    gmOut           \* what it returned, or the calls it made on its context

dpVars == <<DrawParams, dpPc, dpStart, dpCur, dpStack, visited, dpRet,
            dpEntered, dpSteps>>

pdfVars == <<pdfDocErr, pdfPages, pdfCloseErr, pdfPc, pdfI, pdfP, pdfWritten,
             pdfResult>>

rdCaches == <<ResMap, fontCache, drawParamCache, compositeGraphicUnitCache>>

rdVars == <<rdArchive, rdDoc, rdDocID, rdCaches, Stamps, rdPc, rdLocal, rdRet,
            rdCaller, rdLoads, rdProducers, rdReturned, rdCached, rdCrashed>>

rnVars == <<rnReader, rnPage, FontMap, rnCalls, rnDepth, rnWork, rnAsked, rnOp,
            rnFontID, rnText, rnRet, rnOps, rnBox>>

ftVars == <<ftData, ftFixCmap, ftFixName, ftTables, ftNominal, ftDef, ftOp,
            ftOut>>

gmVars == <<gmIn, gmOp, gmOut>>

vars == <<dpVars, pdfVars, rdVars, rnVars, ftVars, gmVars>>

\* The variables each machine leaves alone.
NotDP == <<pdfVars, rdVars, rnVars, ftVars, gmVars>>
NotPdf == <<dpVars, rdVars, rnVars, ftVars, gmVars>>
NotRd == <<dpVars, pdfVars, rnVars, ftVars, gmVars>>
NotRn == <<dpVars, pdfVars, rdVars, ftVars, gmVars>>
NotFt == <<dpVars, pdfVars, rdVars, rnVars, gmVars>>
NotGm == <<dpVars, pdfVars, rdVars, rnVars, ftVars>>

\* A nil pointer to a struct.
Nil == [nil |-> TRUE]

\* A nil *FillColor / *StrokeColor.
NoColor == "nil"

(***************************************************************************)
(* Draw-parameter resolver                                                 *)
(***************************************************************************)

\* Number of draw-param ids of the resource table; 0 stands for the empty
\* string (no Relative).
NumDP == 3

DPIds == 1..NumDP

\* A DrawParam with no field set.
DPUnset ==
    [LineWidth |-> 0, Join |-> "", Cap |-> "", DashPattern |-> "",
     DashOffset |-> 0, MiterLimit |-> 0, FillColor |-> NoColor,
     StrokeColor |-> NoColor, Font |-> "", Size |-> 0, Weight |-> 0,
     Italic |-> FALSE]

\* The field values the tables are built from.
DPFieldSets ==
    << [DPUnset EXCEPT !.StrokeColor = "0 0 255", !.DashOffset = 7],
       [DPUnset EXCEPT !.FillColor = "255 0 0", !.Italic = TRUE],
       [DPUnset EXCEPT !.LineWidth = 2, !.Join = "Round", !.DashPattern = "3"],
       [DPUnset EXCEPT !.DashPattern = "1 2", !.DashOffset = 3, !.Cap = "Square",
                       !.MiterLimit = 4, !.Font = "F1", !.Size = 5,
                       !.Weight = 700, !.LineWidth = -1] >>

\* The fields of draw-param id under profile p.
DPFields(p, id) == DPFieldSets[((id + p) % Len(DPFieldSets)) + 1]

\* The resource tables: every id is absent or present with a Relative that
\* is empty (0) or any id, present or not.
DPTables ==
    { [id \in present |->
          [ID |-> id, Relative |-> rel[id]] @@ DPFields(p, id)] :
        <<present, rel, p>> \in
          { <<s, r, q>> \in (SUBSET DPIds) \X [DPIds -> 0..NumDP]
                             \X (0..(Len(DPFieldSets) - 1)) :
              \A i \in DPIds \ s : r[i] = 0 } }

\* visited[id] = true
MarkVisitedSkip(vis, id) == vis
MarkVisited(vis, id) == vis \cup {id}

\* merged := *base, then every field set on dp overrides it.
MergeKeepChild(base, dp) == dp
MergeKeepBase(base, dp) == base
MergeDrawParam(base, dp) ==
    LET m1 == IF dp.LineWidth > 0 THEN [base EXCEPT !.LineWidth = dp.LineWidth] ELSE base
        m2 == IF dp.Join # "" THEN [m1 EXCEPT !.Join = dp.Join] ELSE m1
        m3 == IF dp.Cap # "" THEN [m2 EXCEPT !.Cap = dp.Cap] ELSE m2
        m4 == IF dp.DashPattern # ""
              THEN [m3 EXCEPT !.DashPattern = dp.DashPattern,
                              !.DashOffset = dp.DashOffset]
              ELSE m3
        m5 == IF dp.MiterLimit > 0 THEN [m4 EXCEPT !.MiterLimit = dp.MiterLimit] ELSE m4
        m6 == IF dp.FillColor # NoColor THEN [m5 EXCEPT !.FillColor = dp.FillColor] ELSE m5
        m7 == IF dp.StrokeColor # NoColor
              THEN [m6 EXCEPT !.StrokeColor = dp.StrokeColor] ELSE m6
        m8 == IF dp.Font # "" THEN [m7 EXCEPT !.Font = dp.Font] ELSE m7
        m9 == IF dp.Size > 0 THEN [m8 EXCEPT !.Size = dp.Size] ELSE m8
        m10 == IF dp.Weight > 0 THEN [m9 EXCEPT !.Weight = dp.Weight] ELSE m9
        m11 == IF dp.Italic THEN [m10 EXCEPT !.Italic = dp.Italic] ELSE m10
    IN  m11

\* What a call on dp returns once its base has been resolved.
DPResultWithBase(base, dp) ==
    IF base = Nil THEN dp ELSE MergeDrawParam(base, dp)

\* The resolver at rest over table t.
DPIdle(t) ==
    /\ DrawParams = t
    /\ dpPc = "idle"
    /\ dpStart = 0
    /\ dpCur = 0
    /\ dpStack = <<>>
    /\ visited = {}
    /\ dpRet = Nil
    /\ dpEntered = [i \in DPIds |-> 0]
    /\ dpSteps = 0

DPInit == \E t \in DPTables : DPIdle(t)

\* A caller (renderLayer, renderPath, renderText, renderCompositeGraphicUnit)
\* calls getDrawParam(id, nil): a fresh visited map.
dpCall(id) ==
    /\ dpPc \in {"idle", "done"}
    /\ dpPc' = "enter"
    /\ dpStart' = id
    /\ dpCur' = id
    /\ dpStack' = <<>>
    /\ visited' = {}
    /\ dpRet' = Nil
    /\ dpEntered' = [i \in DPIds |-> 0]
    /\ dpSteps' = 0
    /\ UNCHANGED <<DrawParams, NotDP>>

\* getDrawParam(dpCur, visited) up to its recursive call or its return.
dpEnter ==
    /\ dpPc = "enter"
    /\ dpSteps' = dpSteps + 1
    /\ IF dpCur \in visited
       THEN /\ dpRet' = Nil
            /\ dpPc' = "return"
            /\ UNCHANGED <<visited, dpEntered, dpStack, dpCur>>
       ELSE /\ visited' = MarkVisited(visited, dpCur)
            /\ dpEntered' = [dpEntered EXCEPT ![dpCur] = @ + 1]
            /\ IF dpCur \in DOMAIN DrawParams
               THEN IF DrawParams[dpCur].Relative # 0
                    THEN /\ dpStack' = Append(dpStack, dpCur)
                         /\ dpCur' = DrawParams[dpCur].Relative
                         /\ dpPc' = "enter"
                         /\ UNCHANGED dpRet
                    ELSE /\ dpRet' = DrawParams[dpCur]
                         /\ dpPc' = "return"
                         /\ UNCHANGED <<dpStack, dpCur>>
               ELSE /\ dpRet' = Nil
                    /\ dpPc' = "return"
                    /\ UNCHANGED <<dpStack, dpCur>>
    /\ UNCHANGED <<DrawParams, dpStart, NotDP>>

\* A call returns: to the call waiting for it as its base, or to the caller.
dpReturn ==
    /\ dpPc = "return"
    /\ dpSteps' = dpSteps + 1
    /\ IF dpStack = <<>>
       THEN /\ dpPc' = "done"
            /\ UNCHANGED <<dpRet, dpStack>>
       ELSE /\ dpRet' = DPResultWithBase(dpRet, DrawParams[dpStack[Len(dpStack)]])
            /\ dpStack' = SubSeq(dpStack, 1, Len(dpStack) - 1)
            /\ dpPc' = "return"
    /\ UNCHANGED <<DrawParams, dpStart, dpCur, visited, dpEntered, NotDP>>

DPNext ==
    \/ \E id \in DPIds : dpCall(id)
    \/ dpEnter
    \/ dpReturn

\* A.Relative = B and B.Relative = A, both in the table (B may be A itself).
DPTwoCycle(a) ==
    /\ a \in DOMAIN DrawParams
    /\ DrawParams[a].Relative \in DOMAIN DrawParams
    /\ DrawParams[DrawParams[a].Relative].Relative = a

\* C9: getDrawParam terminates on every table and every start id, cyclic or
\* not: within one resolution no id gets past the visited test more than
\* once, so the recursion is never deeper than the number of ids and the
\* whole resolution takes at most 2 * NumDP + 2 steps (each id entered and
\* returned from once, one refused re-entry, one return to the caller).
C9_EnteredAtMostOnce ==
    /\ \A i \in DPIds : dpEntered[i] <= 1
    /\ Len(dpStack) <= NumDP
    /\ dpSteps <= 2 * NumDP + 2
    /\ dpPc = "done" => dpStack = <<>>

\* A resolution that walked a cycle through every id and returned.
C9_Witness ==
    /\ dpPc = "done"
    /\ dpSteps = 2 * NumDP + 2
    /\ \A i \in DPIds : dpEntered[i] = 1
    /\ dpRet # Nil

\* C10 as stated: resolving A in a two-cycle returns A itself (A's id and
\* A's field values), not null.
C10_ReturnsFirstNode ==
    (dpPc = "done" /\ DPTwoCycle(dpStart)) =>
        (dpRet # Nil /\ dpRet = DrawParams[dpStart])

\* C10 amended: resolving A in a two-cycle A -> B -> A returns, not null, a
\* copy of B (B's id and Relative) in which exactly the fields set on A carry
\* A's value and every other field keeps B's; it is A itself when B = A.
C10_ReturnsMergeOverB ==
    (dpPc = "done" /\ DPTwoCycle(dpStart)) =>
        LET A == DrawParams[dpStart]
            B == DrawParams[A.Relative]
        IN  /\ dpRet # Nil
            /\ A.Relative = dpStart => dpRet = A
            /\ A.Relative # dpStart =>
                /\ dpRet.ID = B.ID
                /\ dpRet.Relative = B.Relative
                /\ dpRet.LineWidth = IF A.LineWidth > 0 THEN A.LineWidth ELSE B.LineWidth
                /\ dpRet.MiterLimit = IF A.MiterLimit > 0 THEN A.MiterLimit ELSE B.MiterLimit
                /\ dpRet.Size = IF A.Size > 0 THEN A.Size ELSE B.Size
                /\ dpRet.Weight = IF A.Weight > 0 THEN A.Weight ELSE B.Weight
                /\ dpRet.Join = IF A.Join # "" THEN A.Join ELSE B.Join
                /\ dpRet.Cap = IF A.Cap # "" THEN A.Cap ELSE B.Cap
                /\ dpRet.Font = IF A.Font # "" THEN A.Font ELSE B.Font
                /\ dpRet.DashPattern =
                       IF A.DashPattern # "" THEN A.DashPattern ELSE B.DashPattern
                /\ dpRet.DashOffset =
                       IF A.DashPattern # "" THEN A.DashOffset ELSE B.DashOffset
                /\ dpRet.FillColor =
                       IF A.FillColor # NoColor THEN A.FillColor ELSE B.FillColor
                /\ dpRet.StrokeColor =
                       IF A.StrokeColor # NoColor THEN A.StrokeColor ELSE B.StrokeColor
                /\ dpRet.Italic = (A.Italic \/ B.Italic)

\* A two-cycle of distinct nodes was resolved from A, and B contributed a
\* value A does not set.
C10_Witness ==
    /\ dpPc = "done"
    /\ DPTwoCycle(dpStart)
    /\ DrawParams[dpStart].Relative # dpStart
    /\ dpRet # Nil
    /\ dpRet.FillColor # DrawParams[dpStart].FillColor

\* The ids of the Relative chain from id, nearest first; it ends with 0 when
\* the chain leaves the table or is longer than fuel (a cycle).
RECURSIVE DPChain(_, _)
DPChain(id, fuel) ==
    IF id = 0 THEN <<>>
    ELSE IF fuel = 0 \/ id \notin DOMAIN DrawParams THEN <<0>>
    ELSE <<id>> \o DPChain(DrawParams[id].Relative, fuel - 1)

\* The chain from id is acyclic, not empty, and all its nodes exist.
DPAcyclicChain(id) ==
    /\ DPChain(id, NumDP) # <<>>
    /\ \A i \in 1..Len(DPChain(id, NumDP)) : DPChain(id, NumDP)[i] # 0

\* The value of field f on the nearest node of chain, from position i on,
\* whose value is not in unset; the value of the last node when there is none.
RECURSIVE NearestSet(_, _, _, _)
NearestSet(chain, f, unset, i) ==
    IF i >= Len(chain) \/ DrawParams[chain[i]][f] \notin unset
    THEN DrawParams[chain[i]][f]
    ELSE NearestSet(chain, f, unset, i + 1)

\* The same for a numeric field that counts as set when greater than zero.
RECURSIVE NearestPositive(_, _, _)
NearestPositive(chain, f, i) ==
    IF i >= Len(chain) \/ DrawParams[chain[i]][f] > 0
    THEN DrawParams[chain[i]][f]
    ELSE NearestPositive(chain, f, i + 1)

\* The DashOffset of the nearest node whose DashPattern is not empty; that of
\* the last node when there is none.
RECURSIVE NearestDashOffset(_, _)
NearestDashOffset(chain, i) ==
    IF i >= Len(chain) \/ DrawParams[chain[i]].DashPattern # ""
    THEN DrawParams[chain[i]].DashOffset
    ELSE NearestDashOffset(chain, i + 1)

\* The fields both statements of C11 agree on: strings, colours and Italic.
DPTextFieldsNearest(chain) ==
    /\ \A f \in {"Join", "Cap", "DashPattern", "Font"} :
          dpRet[f] = NearestSet(chain, f, {""}, 1)
    /\ \A f \in {"FillColor", "StrokeColor"} :
          dpRet[f] = NearestSet(chain, f, {NoColor}, 1)
    /\ dpRet.Italic = (\E i \in 1..Len(chain) : DrawParams[chain[i]].Italic)

\* C11 as stated: over an acyclic chain of existing nodes every field of the
\* result is the value of the nearest node on which the field is set, where
\* a numeric field (LineWidth, MiterLimit, DashOffset, Size, Weight) is set
\* when it is not zero.
C11_NearestNonZero ==
    (dpPc = "done" /\ DPAcyclicChain(dpStart)) =>
        LET chain == DPChain(dpStart, NumDP)
        IN  /\ dpRet # Nil
            /\ DPTextFieldsNearest(chain)
            /\ \A f \in {"LineWidth", "MiterLimit", "DashOffset", "Size",
                          "Weight"} :
                  dpRet[f] = NearestSet(chain, f, {0}, 1)

\* C11 amended: over an acyclic chain of existing nodes, LineWidth,
\* MiterLimit, Size and Weight are the value of the nearest node on which
\* the field is greater than zero (the last node's value when there is
\* none), DashOffset is the DashOffset of the nearest node whose DashPattern
\* is not empty (the last node's when there is none), Join, Cap, DashPattern
\* and Font are the nearest non-empty value, FillColor and StrokeColor the
\* nearest present one, and Italic is true iff it is true on some node.
C11_NearestSetField ==
    (dpPc = "done" /\ DPAcyclicChain(dpStart)) =>
        LET chain == DPChain(dpStart, NumDP)
        IN  /\ dpRet # Nil
            /\ DPTextFieldsNearest(chain)
            /\ \A f \in {"LineWidth", "MiterLimit", "Size", "Weight"} :
                  dpRet[f] = NearestPositive(chain, f, 1)
            /\ dpRet.DashOffset = NearestDashOffset(chain, 1)

\* P1 -> P2 -> P3 with P3 line-width 2, P2 fill red, P1 stroke blue was
\* resolved from P1 to (lw = 2, fill = red, stroke = blue).
C11_Witness ==
    /\ dpPc = "done"
    /\ DPAcyclicChain(dpStart)
    /\ Len(DPChain(dpStart, NumDP)) = 3
    /\ DrawParams[DPChain(dpStart, NumDP)[3]].LineWidth = 2
    /\ DrawParams[DPChain(dpStart, NumDP)[2]].FillColor = "255 0 0"
    /\ DrawParams[dpStart].StrokeColor = "0 0 255"
    /\ dpRet.LineWidth = 2
    /\ dpRet.FillColor = "255 0 0"
    /\ dpRet.StrokeColor = "0 0 255"


(***************************************************************************)
(* Multi-page PDF export                                                   *)
(***************************************************************************)

\* Largest number of pages of a document.
MaxPages == 3

\* Reader.PageContent(pgRef): the page file is read and decoded, or not.
PageOutcomes == {"ok", "contentErr"}

\* RenderPage fails only if GetPageBox does, and ParseBox never returns an
\* error: a page whose content was read always renders.
RenderPageErr(outcome) == FALSE

\* The loop body's two "continue" tests.
PageSkipped(outcome) == outcome = "contentErr" \/ RenderPageErr(outcome)

\* The 0-based indices of the pages that load and render, in document order.
RenderedPages(pages) ==
    LET RECURSIVE Collect(_)
        Collect(k) ==
            IF k > Len(pages) THEN <<>>
            ELSE (IF PageSkipped(pages[k]) THEN <<>> ELSE <<k - 1>>) \o Collect(k + 1)
    IN  Collect(1)

\* if p == nil { return "failed to render any page" }; return p.Close()
PdfFinishNoNilTest(p, closeErr) == IF closeErr THEN "closeErr" ELSE "nil"
PdfFinishResult(p, closeErr) ==
    IF p = "nil" THEN "failed to render any page"
    ELSE IF closeErr THEN "closeErr" ELSE "nil"

\* The export at rest.
PdfIdle(docErr, pages, closeErr) ==
    /\ pdfDocErr = docErr
    /\ pdfPages = pages
    /\ pdfCloseErr = closeErr
    /\ pdfPc = "idle"
    /\ pdfI = 0
    /\ pdfP = "nil"
    /\ pdfWritten = <<>>
    /\ pdfResult = "none"

PdfInit ==
    \E docErr \in BOOLEAN, closeErr \in BOOLEAN, n \in 0..MaxPages :
        \E pages \in [1..n -> PageOutcomes] : PdfIdle(docErr, pages, closeErr)

\* RenderToMultiPagePDF up to its loop: Doc() and the page count.
pdfCall ==
    /\ pdfPc = "idle"
    /\ IF pdfDocErr
       THEN pdfPc' = "done" /\ pdfResult' = "docErr"
       ELSE IF Len(pdfPages) = 0
            THEN pdfPc' = "done" /\ pdfResult' = "no pages found"
            ELSE pdfPc' = "loop" /\ pdfResult' = "none"
    /\ pdfI' = 0
    /\ pdfP' = "nil"
    /\ pdfWritten' = <<>>
    /\ UNCHANGED <<pdfDocErr, pdfPages, pdfCloseErr, NotPdf>>

\* One iteration of "for i, pgRef := range doc.Pages.Page".  p.NewPage on a
\* nil *pdf.PDF dereferences nil: the call panics.
pdfPage ==
    /\ pdfPc = "loop"
    /\ IF PageSkipped(pdfPages[pdfI + 1])
       THEN /\ pdfI' = pdfI + 1
            /\ pdfPc' = IF pdfI + 1 = Len(pdfPages) THEN "finish" ELSE "loop"
            /\ UNCHANGED <<pdfP, pdfWritten, pdfResult>>
       ELSE IF pdfI # 0 /\ pdfP = "nil"
            THEN /\ pdfPc' = "done"
                 /\ pdfResult' = "panic"
                 /\ UNCHANGED <<pdfI, pdfP, pdfWritten>>
            ELSE /\ pdfP' = "open"
                 /\ pdfWritten' = Append(pdfWritten, pdfI)
                 /\ pdfI' = pdfI + 1
                 /\ pdfPc' = IF pdfI + 1 = Len(pdfPages) THEN "finish" ELSE "loop"
                 /\ UNCHANGED pdfResult
    /\ UNCHANGED <<pdfDocErr, pdfPages, pdfCloseErr, NotPdf>>

\* After the loop.
pdfFinish ==
    /\ pdfPc = "finish"
    /\ pdfPc' = "done"
    /\ pdfResult' = PdfFinishResult(pdfP, pdfCloseErr)
    /\ UNCHANGED <<pdfDocErr, pdfPages, pdfCloseErr, pdfI, pdfP, pdfWritten, NotPdf>>

PdfNext ==
    \/ pdfCall
    \/ pdfPage
    \/ pdfFinish

\* C3: whichever pages fail, if at least one page loads and renders the call
\* does not crash, returns no error (the writer's own Close error aside) and
\* the writer has received exactly the successful pages in document order.
C3_SuccessfulPagesWritten ==
    (pdfPc = "done" /\ ~pdfDocErr /\ RenderedPages(pdfPages) # <<>>) =>
        /\ pdfResult # "panic"
        /\ pdfWritten = RenderedPages(pdfPages)
        /\ ~pdfCloseErr => pdfResult = "nil"

\* C4: with at least one page and no page surviving, the call returns
\* "failed to render any page"; it returns nil only after writing a page.
C4_ZeroPagesFail ==
    pdfPc = "done" =>
        /\ (~pdfDocErr /\ Len(pdfPages) >= 1 /\ RenderedPages(pdfPages) = <<>>)
               => pdfResult = "failed to render any page"
        /\ pdfResult = "nil" => Len(pdfWritten) >= 1

\* A document of several pages, all failing, was exported.
C4_Witness ==
    /\ pdfPc = "done"
    /\ ~pdfDocErr
    /\ Len(pdfPages) >= 2
    /\ RenderedPages(pdfPages) = <<>>
    /\ pdfResult = "failed to render any page"

(***************************************************************************)
(* Reader: Doc(), loadRes, parseSignatures, addStamp                       *)
(***************************************************************************)

\* Largest number of signature entries of Signatures.xml.
MaxSigs == 2

\* The goroutines that may share one Reader.
Workers == {1, 2}

\* The functions that start with r.Reader.Doc() / reader.Doc().
DocCallers ==
    {"Doc", "RenderPageByIndex", "RenderToMultiPagePDF", "PageCount",
     "Permissions", "Outlines", "Attachments", "Extensions"}

\* The page ids stamp annotations refer to.
PageRefs == {"P1", "P2"}

\* One entry of Signatures.xml: whether the signature file and its signed
\* value can be read and decoded, and the PageRef of each StampAnnot.
SigEntries ==
    {[ok |-> FALSE, annots |-> <<>>],
     [ok |-> TRUE, annots |-> <<"P1">>],
     [ok |-> TRUE, annots |-> <<"P1", "P2">>]}

\* doc.Signatures: no list named, a list that cannot be read, or the entries
\* of the list.
SigLists ==
    {[list |-> "none", sigs |-> <<>>], [list |-> "bad", sigs |-> <<>>]}
    \cup { [list |-> "ok", sigs |-> q] :
             q \in UNION { [1..n -> SigEntries] : n \in 0..MaxSigs } }

\* An empty Go map.
EmptyMap == [k \in {} |-> ""]

\* A resource file named by CommonData: "" (not named), "bad" (cannot be
\* read or decoded) or "ok".
ResStates == {"", "bad", "ok"}

\* OFD.xml / the document root: no DocBody, unreadable root, malformed root,
\* or a Document.
RootStates == {"nobody", "readErr", "xmlErr", "ok"}

Archives ==
    [root : RootStates, DocumentRes : ResStates, PublicRes : ResStates,
     Signatures : SigLists]

\* What a readable resource file declares: id -> value, per table.
ResContent(which) ==
    IF which = "DocumentRes"
    THEN [media  |-> ("M1" :> "Doc/Res/img1.png"),
          fonts  |-> ("F1" :> "Doc/Res/f1.ttf"),
          params |-> ("D1" :> "DocumentRes"),
          units  |-> ("G1" :> "DocumentRes")]
    ELSE [media  |-> ("M2" :> "Doc/Res/img2.png"),
          fonts  |-> ("F1" :> "Doc/Res/f1b.otf") @@ ("F2" :> ""),
          params |-> ("D2" :> "PublicRes"),
          units  |-> EmptyMap]

\* m[k] = v for every entry of add (a later write replaces an earlier one).
MapPutAll(m, add) == add @@ m

\* if r.doc != nil { return r.doc, nil }
DocNeverLoaded(doc) == FALSE
DocAlreadyLoaded(doc) == doc # 0

\* What a call of Doc() returns: (*Document, error).
DocResult(doc, err) == [doc |-> doc, err |-> err]
NoResult == DocResult(0, "pending")

\* The first (signature, annotation) position at or after (i, j) that holds a
\* StampAnnot, skipping unreadable signature files; <<0, 0>> past the end.
RECURSIVE NextAnnot(_, _, _)
NextAnnot(sigs, i, j) ==
    IF i > Len(sigs) THEN <<0, 0>>
    ELSE IF ~sigs[i].ok THEN NextAnnot(sigs, i + 1, 1)
    ELSE IF j > Len(sigs[i].annots) THEN NextAnnot(sigs, i + 1, 1)
    ELSE <<i, j>>

\* r.Stamps[pageID] (nil slice when absent).
StampsOf(st, pageID) == IF pageID \in DOMAIN st THEN st[pageID] ELSE <<>>

\* The stamps a single pass of parseSignatures registers for a page.
RECURSIVE StampsFrom(_, _, _)
StampsFrom(sigs, pos, pageID) ==
    IF pos = <<0, 0>> THEN <<>>
    ELSE (IF sigs[pos[1]].annots[pos[2]] = pageID THEN <<[annot |-> pos]>> ELSE <<>>)
         \o StampsFrom(sigs, NextAnnot(sigs, pos[1], pos[2] + 1), pageID)

NoLocal == [doc |-> 0, pos |-> <<0, 0>>, slice |-> <<>>]

\* A Reader after Open / NewReader (initRoot has made the empty maps).
RdIdle(a) ==
    /\ rdArchive = a
    /\ rdDoc = 0
    /\ rdDocID = ""
    /\ ResMap = EmptyMap
    /\ fontCache = EmptyMap
    /\ drawParamCache = EmptyMap
    /\ compositeGraphicUnitCache = EmptyMap
    /\ Stamps = EmptyMap
    /\ rdPc = [w \in Workers |-> "idle"]
    /\ rdLocal = [w \in Workers |-> NoLocal]
    /\ rdRet = [w \in Workers |-> NoResult]
    /\ rdCaller = [w \in Workers |-> ""]
    /\ rdLoads = 0
    /\ rdProducers = {}
    /\ rdReturned = FALSE
    /\ rdCached = FALSE
    /\ rdCrashed = FALSE

RdInit == \E a \in Archives : RdIdle(a)

\* Doc() is entered from caller: r.doc test, DocBody test, read and decode
\* of the document root, DocID = "loaded".
rdCall(w, caller) ==
    /\ ~rdCrashed
    /\ rdPc[w] = "idle"
    /\ rdCaller' = [rdCaller EXCEPT ![w] = caller]
    /\ IF DocAlreadyLoaded(rdDoc)
       THEN /\ rdRet' = [rdRet EXCEPT ![w] = DocResult(rdDoc, "")]
            /\ rdReturned' = TRUE
            /\ rdCached' = TRUE
            /\ UNCHANGED <<rdPc, rdLocal, rdLoads, rdDocID>>
       ELSE IF rdArchive.root # "ok"
            THEN /\ rdRet' = [rdRet EXCEPT ![w] = DocResult(0,
                        IF rdArchive.root = "nobody" THEN "no docbody found"
                        ELSE rdArchive.root)]
                 /\ UNCHANGED <<rdPc, rdLocal, rdLoads, rdDocID, rdReturned,
                                rdCached>>
            ELSE /\ rdLoads' = rdLoads + 1
                 /\ rdLocal' = [rdLocal EXCEPT ![w] =
                        [NoLocal EXCEPT !.doc = rdLoads + 1]]
                 /\ rdDocID' = "loaded"
                 /\ rdPc' = [rdPc EXCEPT ![w] = "DocumentRes"]
                 /\ rdRet' = [rdRet EXCEPT ![w] = NoResult]
                 /\ UNCHANGED <<rdReturned, rdCached>>
    /\ UNCHANGED <<rdArchive, rdDoc, rdCaches, Stamps, rdProducers, rdCrashed,
                   NotRd>>

\* loadRes(path) up to its first map write: nothing happens when the path is
\* empty or the file cannot be read or decoded.
rdLoadResRead(w) ==
    /\ ~rdCrashed
    /\ rdPc[w] \in {"DocumentRes", "PublicRes"}
    /\ rdPc' = [rdPc EXCEPT ![w] =
           IF rdArchive[rdPc[w]] = "ok"
           THEN (IF rdPc[w] = "DocumentRes" THEN "DocumentResW" ELSE "PublicResW")
           ELSE (IF rdPc[w] = "DocumentRes" THEN "PublicRes" ELSE "setdoc")]
    /\ UNCHANGED <<rdArchive, rdDoc, rdDocID, rdCaches, Stamps, rdLocal, rdRet,
                   rdCaller, rdLoads, rdProducers, rdReturned, rdCached, rdCrashed, NotRd>>

\* The four loops of loadRes: every entry is written into its map.
rdLoadResWrite(w) ==
    /\ ~rdCrashed
    /\ rdPc[w] \in {"DocumentResW", "PublicResW"}
    /\ LET c == ResContent(IF rdPc[w] = "DocumentResW" THEN "DocumentRes"
                           ELSE "PublicRes")
       IN  /\ ResMap' = MapPutAll(ResMap, c.media)
           /\ fontCache' = MapPutAll(fontCache, c.fonts)
           /\ drawParamCache' = MapPutAll(drawParamCache, c.params)
           /\ compositeGraphicUnitCache' =
                  MapPutAll(compositeGraphicUnitCache, c.units)
    /\ rdProducers' = rdProducers \cup {w}
    /\ rdPc' = [rdPc EXCEPT ![w] =
           IF rdPc[w] = "DocumentResW" THEN "PublicRes" ELSE "setdoc"]
    /\ UNCHANGED <<rdArchive, rdDoc, rdDocID, Stamps, rdLocal, rdRet, rdCaller,
                   rdLoads, rdReturned, rdCached, rdCrashed, NotRd>>

\* r.doc = &doc, then parseSignatures up to its loop.
rdSetDoc(w) ==
    /\ ~rdCrashed
    /\ rdPc[w] = "setdoc"
    /\ rdDoc' = rdLocal[w].doc
    /\ LET sigs == rdArchive.Signatures
           first == IF sigs.list # "ok" THEN <<0, 0>>
                    ELSE NextAnnot(sigs.sigs, 1, 1)
       IN  /\ rdLocal' = [rdLocal EXCEPT ![w].pos = first]
           /\ rdPc' = [rdPc EXCEPT ![w] =
                  IF first = <<0, 0>> THEN "return" ELSE "addStamp"]
    /\ UNCHANGED <<rdArchive, rdDocID, rdCaches, Stamps, rdRet, rdCaller, rdLoads,
                   rdProducers, rdReturned, rdCached, rdCrashed, NotRd>>

\* addStamp: the read of r.Stamps[pageID] that append starts from.
rdAddStampRead(w) ==
    /\ ~rdCrashed
    /\ rdPc[w] = "addStamp"
    /\ LET pos == rdLocal[w].pos
           pageID == rdArchive.Signatures.sigs[pos[1]].annots[pos[2]]
       IN  rdLocal' = [rdLocal EXCEPT ![w].slice = StampsOf(Stamps, pageID)]
    /\ rdPc' = [rdPc EXCEPT ![w] = "addStampW"]
    /\ UNCHANGED <<rdArchive, rdDoc, rdDocID, rdCaches, Stamps, rdRet, rdCaller,
                   rdLoads, rdProducers, rdReturned, rdCached, rdCrashed, NotRd>>

\* addStamp: r.Stamps[pageID] = append(...), then on to the next StampAnnot.
rdAddStampWrite(w) ==
    /\ ~rdCrashed
    /\ rdPc[w] = "addStampW"
    /\ LET sigs == rdArchive.Signatures.sigs
           pos == rdLocal[w].pos
           pageID == sigs[pos[1]].annots[pos[2]]
           next == NextAnnot(sigs, pos[1], pos[2] + 1)
       IN  /\ Stamps' = MapPutAll(Stamps,
                  pageID :> Append(rdLocal[w].slice, [annot |-> pos]))
           /\ rdLocal' = [rdLocal EXCEPT ![w].pos = next, ![w].slice = <<>>]
           /\ rdPc' = [rdPc EXCEPT ![w] =
                  IF next = <<0, 0>> THEN "return" ELSE "addStamp"]
    /\ rdProducers' = rdProducers \cup {w}
    /\ UNCHANGED <<rdArchive, rdDoc, rdDocID, rdCaches, rdRet, rdCaller, rdLoads,
                   rdReturned, rdCached, rdCrashed, NotRd>>

\* return r.doc, nil
rdReturn(w) ==
    /\ ~rdCrashed
    /\ rdPc[w] = "return"
    /\ rdRet' = [rdRet EXCEPT ![w] = DocResult(rdDoc, "")]
    /\ rdReturned' = TRUE
    /\ rdPc' = [rdPc EXCEPT ![w] = "idle"]
    /\ rdLocal' = [rdLocal EXCEPT ![w] = NoLocal]
    /\ UNCHANGED <<rdArchive, rdDoc, rdDocID, rdCaches, Stamps, rdCaller, rdLoads,
                   rdProducers, rdCached, rdCrashed, NotRd>>

\* Positions at which a worker is writing one of the Reader's maps.
MapWritePcs == {"DocumentResW", "PublicResW", "addStampW"}

\* Two goroutines write the Reader's maps at once: the Go runtime may stop
\* the process with "fatal error: concurrent map writes".
rdConcurrentMapWrites ==
    /\ ~rdCrashed
    /\ \E w1, w2 \in Workers :
          w1 # w2 /\ rdPc[w1] \in MapWritePcs /\ rdPc[w2] \in MapWritePcs
    /\ rdCrashed' = TRUE
    /\ UNCHANGED <<rdArchive, rdDoc, rdDocID, rdCaches, Stamps, rdPc, rdLocal,
                   rdRet, rdCaller, rdLoads, rdProducers, rdReturned, rdCached, NotRd>>

\* One goroutine uses the Reader: every call runs to its end before the next.
RdNextSequential ==
    \/ \E caller \in DocCallers : rdCall(1, caller)
    \/ rdLoadResRead(1)
    \/ rdLoadResWrite(1)
    \/ rdSetDoc(1)
    \/ rdAddStampRead(1)
    \/ rdAddStampWrite(1)
    \/ rdReturn(1)

\* Two workers, one Renderer each, share the Reader and call Doc().
RdNextConcurrent ==
    \/ \E w \in Workers : rdCall(w, "Doc")
    \/ \E w \in Workers : rdLoadResRead(w)
    \/ \E w \in Workers : rdLoadResWrite(w)
    \/ \E w \in Workers : rdSetDoc(w)
    \/ \E w \in Workers : rdAddStampRead(w)
    \/ \E w \in Workers : rdAddStampWrite(w)
    \/ \E w \in Workers : rdReturn(w)
    \/ rdConcurrentMapWrites

\* The resource tables after loadRes has run for every readable resource file
\* the archive names (PublicRes after DocumentRes).
LoadedCaches(a) ==
    LET d == IF a.DocumentRes = "ok" THEN ResContent("DocumentRes")
             ELSE [media |-> EmptyMap, fonts |-> EmptyMap, params |-> EmptyMap,
                   units |-> EmptyMap]
        q == IF a.PublicRes = "ok" THEN ResContent("PublicRes")
             ELSE [media |-> EmptyMap, fonts |-> EmptyMap, params |-> EmptyMap,
                   units |-> EmptyMap]
    IN  <<MapPutAll(d.media, q.media), MapPutAll(d.fonts, q.fonts),
          MapPutAll(d.params, q.params), MapPutAll(d.units, q.units)>>

\* The stamps of a page after one pass of parseSignatures over the archive.
LoadedStamps(a, pageID) ==
    IF a.Signatures.list # "ok" THEN <<>>
    ELSE StampsFrom(a.Signatures.sigs, NextAnnot(a.Signatures.sigs, 1, 1), pageID)

\* C7: once a call of Doc() has returned a Document, every further step of a
\* Doc() call (made directly or from RenderPageByIndex, RenderToMultiPagePDF,
\* PageCount, Permissions, Outlines, Attachments, Extensions) leaves r.doc,
\* ResMap, fontCache, drawParamCache, compositeGraphicUnitCache and Stamps as
\* they are, and the call returns that same Document without error.
C7_LoadedExactlyOnce ==
    [][rdReturned =>
          /\ rdDoc' = rdDoc
          /\ UNCHANGED <<ResMap, fontCache, drawParamCache,
                         compositeGraphicUnitCache, Stamps>>
          /\ rdLoads' = rdLoads
          /\ rdRet'[1] = DocResult(rdDoc, "")]_vars

\* A later call, made from PageCount, has returned at the r.doc != nil test
\* of a Reader whose single load filled the resource tables and two stamps.
C7_Witness ==
    /\ rdCached
    /\ rdCaller[1] = "PageCount"
    /\ rdPc[1] = "idle"
    /\ rdRet[1] = DocResult(1, "")
    /\ rdLoads = 1
    /\ rdCaches = LoadedCaches(rdArchive)
    /\ "F2" \in DOMAIN fontCache
    /\ Len(StampsOf(Stamps, "P1")) = 2
    /\ \A p \in PageRefs : StampsOf(Stamps, p) = LoadedStamps(rdArchive, p)

\* C8: under every interleaving of two workers calling Doc() on one Reader,
\* a single worker fills the caches, no stamp annotation is registered twice
\* and, once no load is running, each is registered exactly once; a worker
\* whose call returned a Document finds ResMap, fontCache, drawParamCache,
\* compositeGraphicUnitCache and Stamps fully populated.
C8_GuardedFirstAccess ==
    /\ Cardinality(rdProducers) <= 1
    /\ \A p \in DOMAIN Stamps : \A i, j \in 1..Len(Stamps[p]) :
          Stamps[p][i] = Stamps[p][j] => i = j
    /\ \A w \in Workers :
          (rdPc[w] = "idle" /\ rdRet[w].doc # 0) =>
              /\ rdCaches = LoadedCaches(rdArchive)
              /\ \A p \in PageRefs : StampsOf(Stamps, p) = LoadedStamps(rdArchive, p)

(***************************************************************************)
(* Renderer: loadFont, renderText, renderPath, renderImage,                *)
(* renderCompositeGraphicUnit, renderLayer, renderTemplate, renderStamp,   *)
(* RenderPageToContext                                                     *)
(***************************************************************************)

\* Largest number of template references, layers and stamps of a page.
MaxTemplates == 2
MaxLayers == 2
MaxStamps == 1

\* Largest number of loadFont and renderText calls made on one Renderer.
MaxOps == 3

\* *canvas.FontFamily values: nil, the renderer's default family
\* (r.fontFamily), or a family loaded for a font record.
NilFont == [family |-> "", src |-> "nil"]
DefaultFont == [family |-> "default", src |-> "default"]
LoadedFont(of, src) == [family |-> of.FontName, src |-> src]

\* A font record of the Reader's fontCache together with what the archive
\* and the machine hold for it: whether FontFile can be read, whether
\* FixFontDataAggressive succeeds, whether the typeface backend accepts the
\* file's own bytes and the repaired ones, and where a font without FontFile
\* is found first.
FontPlaces == {"dir", "fs", "system", "alias", "winfile", "none"}

EmbeddedFont(readable, repairOK, rawLoads, fixedLoads) ==
    [FontName |-> "Embedded", FontFile |-> "Doc/Res/font.ttf",
     readable |-> readable, repairOK |-> repairOK, rawLoads |-> rawLoads,
     fixedLoads |-> fixedLoads, found |-> "none"]

NamedFont(found) ==
    [FontName |-> "SimSun", FontFile |-> "", readable |-> FALSE,
     repairOK |-> FALSE, rawLoads |-> FALSE, fixedLoads |-> FALSE,
     found |-> found]

FontRecords ==
    {EmbeddedFont(FALSE, FALSE, FALSE, FALSE)}
    \cup {EmbeddedFont(TRUE, FALSE, y, FALSE) : y \in BOOLEAN}
    \cup {EmbeddedFont(TRUE, TRUE, y, z) : y, z \in BOOLEAN}
    \cup {NamedFont(f) : f \in FontPlaces}

\* The font ids a document uses; "" is a text object without a font.
FontIDs == {"F1", "F2"}

\* The fontCache tables: every id has a record or none.
RECURSIVE MapsOver(_, _)
MapsOver(keys, values) ==
    IF keys = {} THEN {EmptyMap}
    ELSE LET k == CHOOSE x \in keys : TRUE
             rest == MapsOver(keys \ {k}, values)
         IN  rest \cup {(k :> v) @@ m : v \in values, m \in rest}

\* The canvas context and the Renderer state a render works on: the draw
\* calls emitted so far, the depth of the context's state stack, r.FontMap,
\* and two records of what loadFont did: per font id the number of times the
\* font was read, repaired or searched for, and the ids loadFont has
\* returned for.
NewContext(fontMap, work, asked) ==
    [calls |-> <<>>, depth |-> 0, FontMap |-> fontMap, work |-> work,
     asked |-> asked]

\* The element of the page a draw call is emitted for.
NoTag == [kind |-> "none", idx |-> 0]
TagOf(outer, kind, idx) ==
    IF outer = NoTag THEN [kind |-> kind, idx |-> idx] ELSE outer

\* A box string is the sequence of its fields and whitespace runs: "" is
\* <<>>, "0 0 210 297" is <<"0", Sp, "0", Sp, "210", Sp, "297">>.
Sp == " "

\* strings.Fields: the fields of s from position i on, whitespace dropped.
RECURSIVE Fields(_, _)
Fields(s, i) ==
    IF i > Len(s) THEN <<>>
    ELSE IF s[i] = Sp THEN Fields(s, i + 1)
    ELSE <<s[i]>> \o Fields(s, i + 1)

\* strconv.ParseFloat with its error dropped: the value of a numeral, 0 for
\* any other field.
Numerals ==
    ("0" :> 0) @@ ("1" :> 1) @@ ("2" :> 2) @@ ("3" :> 3) @@ ("5" :> 5)
    @@ ("9" :> 9) @@ ("20" :> 20) @@ ("30" :> 30) @@ ("40" :> 40)
    @@ ("100" :> 100) @@ ("128" :> 128) @@ ("200" :> 200) @@ ("210" :> 210)
    @@ ("255" :> 255) @@ ("297" :> 297) @@ ("300" :> 300)
ParseFloat(field) == IF field \in DOMAIN Numerals THEN Numerals[field] ELSE 0

\* strconv.Atoi with its error dropped.
Atoi(field) == IF field \in DOMAIN Numerals THEN Numerals[field] ELSE 0

\* A color.Color: the nil interface, or red, green, blue and alpha of 8 bits.
RGBA(r, g, b, a) == [R |-> r, G |-> g, B |-> b, A |-> a, nil |-> FALSE]
NilColor == [R |-> 0, G |-> 0, B |-> 0, A |-> 0, nil |-> TRUE]
Black == RGBA(0, 0, 0, 255)
White == RGBA(255, 255, 255, 255)
Red == RGBA(255, 0, 0, 255)
Transparent == RGBA(0, 0, 0, 0)

\* A nil *int Alpha, and one that is set.
NoAlpha == [set |-> FALSE, v |-> 0]
AlphaOf(v) == [set |-> TRUE, v |-> v]

\* The FillColor and StrokeColor elements of the documents, by the name the
\* model gives them: the fields and whitespace runs of Value, and Alpha.
ColorElems ==
    ("255 0 0" :> [Value |-> <<"255", Sp, "0", Sp, "0">>, Alpha |-> NoAlpha])
    @@ ("0 0 255/40" :> [Value |-> <<"0", Sp, "0", Sp, "255">>,
                         Alpha |-> AlphaOf(40)])
    @@ ("0 0 0" :> [Value |-> <<"0", Sp, "0", Sp, "0">>, Alpha |-> NoAlpha])
    @@ ("300 x 9 9" :> [Value |-> <<"300", Sp, "x", Sp, "9", Sp, "9">>,
                        Alpha |-> NoAlpha])
    @@ ("128 128" :> [Value |-> <<"128", Sp, "128">>, Alpha |-> NoAlpha])
    @@ ("7/40" :> [Value |-> <<Sp, "7">>, Alpha |-> AlphaOf(40)])
    @@ ("" :> [Value |-> <<>>, Alpha |-> NoAlpha])

\* parseColorWithAlpha.
ParseColorOrNil(val, alpha) ==
    LET parts == Fields(val, 1)
    IN  IF Len(parts) >= 3
        THEN RGBA(Atoi(parts[1]) % 256, Atoi(parts[2]) % 256,
                  Atoi(parts[3]) % 256,
                  (IF alpha.set THEN alpha.v ELSE 255) % 256)
        ELSE NilColor
ParseColorWithAlpha(val, alpha) ==
    LET parts == Fields(val, 1)
    IN  IF Len(parts) >= 3
        THEN RGBA(Atoi(parts[1]) % 256, Atoi(parts[2]) % 256,
                  Atoi(parts[3]) % 256,
                  (IF alpha.set THEN alpha.v ELSE 255) % 256)
        ELSE Black

\* parseColorWithAlpha(c.Value, c.Alpha) of the colour element named c.
ColorOf(c) == ParseColorWithAlpha(ColorElems[c].Value, ColorElems[c].Alpha)

\* A draw call, with the colour it draws in; Emit is a call that takes no
\* colour.
EmitIn(st, op, obj, arg, top, col) ==
    [st EXCEPT !.calls = Append(@, [op |-> op, obj |-> obj, arg |-> arg,
                                    top |-> top, col |-> col])]
Emit(st, op, obj, arg, top) == EmitIn(st, op, obj, arg, top, NilColor)
Push(st) == [st EXCEPT !.depth = @ + 1]
Pop(st) == [st EXCEPT !.depth = @ - 1]

WorkOf(work, id) == IF id \in DOMAIN work THEN work[id] ELSE 0

\* loadFont(fontID): the state after the call and the family returned.
LoadFont(st, r, fontID) ==
    LET ret(s, ff) == [st |-> [s EXCEPT !.asked = @ \cup {fontID}], ff |-> ff]
        worked == [st EXCEPT !.work = MapPutAll(@,
                       fontID :> (WorkOf(st.work, fontID) + 1))]
        cache(s, ff) == [s EXCEPT !.FontMap = MapPutAll(@, fontID :> ff)]
        accepted(of) == IF of.repairOK THEN of.fixedLoads ELSE of.rawLoads
    IN  IF fontID \in DOMAIN st.FontMap THEN ret(st, st.FontMap[fontID])
        ELSE IF fontID \notin DOMAIN r.fontCache THEN ret(st, DefaultFont)
        ELSE LET of == r.fontCache[fontID]
             IN  IF of.FontFile # ""
                 THEN IF ~of.readable THEN ret(worked, NilFont)
                      ELSE IF accepted(of)
                           THEN ret(cache(worked, LoadedFont(of, "embedded")),
                                    LoadedFont(of, "embedded"))
                           ELSE ret(worked, NilFont)
                 ELSE IF of.found # "none"
                      THEN ret(cache(worked, LoadedFont(of, of.found)),
                               LoadedFont(of, of.found))
                      ELSE ret(cache(worked, DefaultFont), DefaultFont)

\* getDrawParam(id, nil) over a table without Relative links: the entry
\* itself, or nil.
NoDrawParam == [FillColor |-> NoColor, StrokeColor |-> NoColor, Font |-> "",
                nil |-> TRUE]
DrawParamOf(r, id) ==
    IF id # "" /\ id \in DOMAIN r.DrawParams THEN r.DrawParams[id]
    ELSE NoDrawParam

\* The runes of a TextCode: the glyph ids of Index when present, else the
\* characters of Value.
Runes(tc) == IF tc.Index # <<>> THEN tc.Index ELSE tc.Value

\* The loops below handle objs[i], objs[i + 1], ... in order, each from the
\* state the one before it left: s1 is that state.

\* The rune loop of renderText for one TextCode, from rune i on.
DrawRune(st, obj, run, top, fillColor) ==
    LET s1 == IF ~fillColor.nil
              THEN EmitIn(st, "DrawText", obj.ID, run, top, fillColor) ELSE st
    IN  IF obj.Decoration = "Underline"
        THEN EmitIn(s1, "Stroke", obj.ID, run, top, fillColor) ELSE s1

RECURSIVE DrawRunes(_, _, _, _, _, _)
DrawRunes(st, obj, runes, i, top, fillColor) ==
    IF i > Len(runes) THEN st
    ELSE CHOOSE out \in {DrawRunes(s1, obj, runes, i + 1, top, fillColor) :
                          s1 \in {DrawRune(st, obj, runes[i], top,
                                           fillColor)}} : TRUE

\* The TextCode loop of renderText, from TextCode k on.
RECURSIVE DrawTextCodes(_, _, _, _, _)
DrawTextCodes(st, obj, k, top, fillColor) ==
    IF k > Len(obj.TextCode) THEN st
    ELSE CHOOSE out \in {DrawTextCodes(s1, obj, k + 1, top, fillColor) :
                          s1 \in {DrawRunes(st, obj, Runes(obj.TextCode[k]),
                                            1, top, fillColor)}} : TRUE

\* renderText.
RenderText(st, r, obj, defaultFill, top) ==
    LET s1 == Push(st)
        dp == DrawParamOf(r, obj.DrawParam)
        fontID == IF obj.Font = "" /\ ~dp.nil /\ dp.Font # "" THEN dp.Font
                  ELSE obj.Font
        f1 == IF defaultFill.nil THEN Black ELSE defaultFill
        f2 == IF ~dp.nil /\ dp.FillColor # NoColor THEN ColorOf(dp.FillColor)
              ELSE f1
        fillColor == IF obj.FillColor # NoColor THEN ColorOf(obj.FillColor)
                     ELSE f2
        lf == LoadFont(s1, r, fontID)
    IN  IF lf.ff = NilFont THEN lf.st
        ELSE Pop(DrawTextCodes(lf.st, obj, 1, top, fillColor))

RECURSIVE RenderTexts(_, _, _, _, _, _)
RenderTexts(st, r, objs, i, defaultFill, top) ==
    IF i > Len(objs) THEN st
    ELSE CHOOSE out \in {RenderTexts(s1, r, objs, i + 1, defaultFill, top) :
                          s1 \in {RenderText(st, r, objs[i], defaultFill,
                                             top)}} : TRUE

\* renderPath: the fill and the stroke draw of the path.
RenderPath(st, r, obj, defaultFill, defaultStroke, top) ==
    LET s1 == Push(st)
        dp == DrawParamOf(r, obj.DrawParam)
        dpFill == IF ~dp.nil /\ dp.FillColor # NoColor
                  THEN ColorOf(dp.FillColor) ELSE defaultFill
        dpStroke == IF ~dp.nil /\ dp.StrokeColor # NoColor
                    THEN ColorOf(dp.StrokeColor) ELSE defaultStroke
        fillColor == IF obj.FillColor # NoColor THEN ColorOf(obj.FillColor)
                     ELSE dpFill
        strokeColor == IF obj.StrokeColor # NoColor
                       THEN ColorOf(obj.StrokeColor) ELSE dpStroke
        shouldFill == obj.Fill # "false"
        shouldStroke == obj.Stroke # "false"
        s2 == IF shouldFill /\ ~fillColor.nil
              THEN EmitIn(s1, "DrawPath", obj.ID, "fill", top, fillColor)
              ELSE s1
        s3 == IF shouldStroke
              THEN EmitIn(s2, "DrawPath", obj.ID, "stroke", top,
                          IF strokeColor.nil THEN Transparent
                          ELSE strokeColor)
              ELSE s2
    IN  Pop(s3)

RECURSIVE RenderPaths(_, _, _, _, _, _, _)
RenderPaths(st, r, objs, i, defaultFill, defaultStroke, top) ==
    IF i > Len(objs) THEN st
    ELSE CHOOSE out \in
             {RenderPaths(s1, r, objs, i + 1, defaultFill, defaultStroke, top) :
              s1 \in {RenderPath(st, r, objs[i], defaultFill, defaultStroke,
                                 top)}} : TRUE

\* renderImage: nothing is drawn (and nothing pushed) when the resource is
\* not in ResMap, cannot be read or decoded, or has no extent.
RenderImage(st, r, obj, top) ==
    IF obj.ResourceID \notin DOMAIN r.ResMap THEN st
    ELSE IF r.Files[r.ResMap[obj.ResourceID]] # "image" THEN st
    ELSE Pop(Emit(Push(st), "DrawImage", obj.ID, "", top))

RECURSIVE RenderImages(_, _, _, _, _)
RenderImages(st, r, objs, i, top) ==
    IF i > Len(objs) THEN st
    ELSE CHOOSE out \in {RenderImages(s1, r, objs, i + 1, top) :
                          s1 \in {RenderImage(st, r, objs[i], top)}} : TRUE

\* The colour a DrawParam attribute of a layer or composite unit leaves as
\* default: the DrawParam's colour when it sets one.
OverrideColor(r, id, which, default) ==
    LET dp == DrawParamOf(r, id)
    IN  IF ~dp.nil /\ dp[which] # NoColor THEN ColorOf(dp[which]) ELSE default

\* renderCompositeGraphicUnit, and the loops over composite units.
RECURSIVE RenderCompositeGraphicUnit(_, _, _, _, _, _)
RECURSIVE RenderCompositeGraphicUnits(_, _, _, _, _, _, _)
RenderCompositeGraphicUnit(st, r, cgu, defaultFill, defaultStroke, top) ==
    LET s1 == Push(st)
        s2 == IF cgu.ResourceID # ""
                 /\ cgu.ResourceID \in DOMAIN r.CompositeGraphicUnits
              THEN RenderCompositeGraphicUnit(s1, r,
                       r.CompositeGraphicUnits[cgu.ResourceID],
                       defaultFill, defaultStroke, top)
              ELSE s1
        fill == OverrideColor(r, cgu.DrawParam, "FillColor", defaultFill)
        stroke == OverrideColor(r, cgu.DrawParam, "StrokeColor", defaultStroke)
    IN  CHOOSE out \in
            {Pop(RenderCompositeGraphicUnits(s5, r, cgu.CompositeGraphicUnit,
                                             1, fill, stroke, top)) :
             s5 \in {RenderTexts(s4, r, cgu.TextObject, 1, fill, top) :
             s4 \in {RenderPaths(s3, r, cgu.PathObject, 1, fill, stroke, top) :
             s3 \in {RenderImages(s, r, cgu.ImageObject, 1, top) :
             s \in {s2}}}}} : TRUE

RenderCompositeGraphicUnits(st, r, cgus, i, defaultFill, defaultStroke, top) ==
    IF i > Len(cgus) THEN st
    ELSE CHOOSE out \in
             {RenderCompositeGraphicUnits(s1, r, cgus, i + 1, defaultFill,
                                          defaultStroke, top) :
              s1 \in {RenderCompositeGraphicUnit(st, r, cgus[i], defaultFill,
                                                 defaultStroke, top)}} : TRUE

\* renderLayer(ctx, layer, pageH, nil, nil, 0, nil).
RenderLayerPathsFirst(st, r, layer, top) ==
    LET fill == OverrideColor(r, layer.DrawParam, "FillColor", NilColor)
        stroke == OverrideColor(r, layer.DrawParam, "StrokeColor", NilColor)
    IN  CHOOSE out \in
            {RenderCompositeGraphicUnits(s3, r, layer.CompositeGraphicUnit, 1,
                                         fill, stroke, top) :
             s3 \in {RenderImages(s2, r, layer.ImageObject, 1, top) :
             s2 \in {RenderTexts(s1, r, layer.TextObject, 1, fill, top) :
             s1 \in {RenderPaths(st, r, layer.PathObject, 1, fill, stroke,
                                 top)}}}} : TRUE
RenderLayer(st, r, layer, top) ==
    LET fill == OverrideColor(r, layer.DrawParam, "FillColor", NilColor)
        stroke == OverrideColor(r, layer.DrawParam, "StrokeColor", NilColor)
    IN  CHOOSE out \in
            {RenderCompositeGraphicUnits(s3, r, layer.CompositeGraphicUnit, 1,
                                         fill, stroke, top) :
             s3 \in {RenderImages(s2, r, layer.ImageObject, 1, top) :
             s2 \in {RenderPaths(s1, r, layer.PathObject, 1, fill, stroke,
                                 top) :
             s1 \in {RenderTexts(st, r, layer.TextObject, 1, fill, top)}}}} :
            TRUE

\* The layer loop of renderTemplate: every layer belongs to the template.
RECURSIVE RenderTemplateLayers(_, _, _, _, _)
RenderTemplateLayers(st, r, layers, i, top) ==
    IF i > Len(layers) THEN st
    ELSE CHOOSE out \in {RenderTemplateLayers(s1, r, layers, i + 1, top) :
                          s1 \in {RenderLayer(st, r, layers[i], top)}} : TRUE

\* renderTemplate: nothing is drawn when the document declares no template
\* page of that id or the template's content cannot be loaded.
RenderTemplate(st, r, templateID, top) ==
    IF templateID \notin DOMAIN r.TemplatePage THEN st
    ELSE IF ~r.TemplatePage[templateID].readable THEN st
    ELSE RenderTemplateLayers(st, r, r.TemplatePage[templateID].Layer, 1, top)

\* The tests of the two template loops of RenderPageToContext.
InEveryPass(tplRef) == TRUE
InBackgroundPass(tplRef) == tplRef.ZOrder # "Foreground"
InForegroundPass(tplRef) == tplRef.ZOrder = "Foreground"

\* A template loop of RenderPageToContext: the second one when foreground.
RECURSIVE RenderTemplates(_, _, _, _, _, _)
RenderTemplates(st, r, refs, i, foreground, outer) ==
    IF i > Len(refs) THEN st
    ELSE LET wanted == IF foreground THEN InForegroundPass(refs[i])
                       ELSE InBackgroundPass(refs[i])
         IN  CHOOSE out \in
                 {RenderTemplates(s1, r, refs, i + 1, foreground, outer) :
                  s1 \in {IF wanted
                          THEN RenderTemplate(st, r, refs[i].TemplateID,
                                              TagOf(outer, "template", i))
                          ELSE st}} : TRUE

\* ParseBox: the zero box for fewer than four fields, else the first four
\* fields; the error is always nil.
BoxOf(x, y, w, h) == [X |-> x, Y |-> y, W |-> w, H |-> h]
ParseBox(s) ==
    LET parts == Fields(s, 1)
    IN  IF Len(parts) < 4 THEN [box |-> BoxOf(0, 0, 0, 0), err |-> "nil"]
        ELSE [box |-> BoxOf(ParseFloat(parts[1]), ParseFloat(parts[2]),
                            ParseFloat(parts[3]), ParseFloat(parts[4])),
              err |-> "nil"]

\* GetPageBox.
DefaultBoxStr == <<"0", Sp, "0", Sp, "210", Sp, "297">>
PickContentFirst(page) ==
    IF page.Area.PhysicalBox # <<>> THEN page.Area.PhysicalBox
    ELSE IF page.Area.ContentBox # <<>> THEN page.Area.ContentBox
    ELSE page.Area.ApplicationBox
PickPageBoxStr(page) ==
    IF page.Area.PhysicalBox # <<>> THEN page.Area.PhysicalBox
    ELSE IF page.Area.ApplicationBox # <<>> THEN page.Area.ApplicationBox
    ELSE page.Area.ContentBox
GetPageBox(r, page) ==
    LET s1 == PickPageBoxStr(page)
        s2 == IF s1 = <<>> /\ r.docLoaded THEN r.PageArea.PhysicalBox ELSE s1
        s3 == IF s2 = <<>> THEN DefaultBoxStr ELSE s2
    IN  ParseBox(s3)

\* RenderPageToContext, renderStamp and their loops call each other: a stamp
\* of type "ofd" is a document whose pages are rendered into the same context
\* by a Renderer of its own.
RECURSIVE RenderPageToContext(_, _, _, _)
RECURSIVE RenderSealPages(_, _, _, _, _)
RECURSIVE RenderStamps(_, _, _, _, _)
RECURSIVE RenderPageLayers(_, _, _, _, _)

RenderSealPages(st, seal, pages, i, top) ==
    IF i > Len(pages) THEN st
    ELSE CHOOSE out \in
             {RenderSealPages(s1, seal, pages, i + 1, top) :
              s1 \in {IF ~pages[i].readable THEN st
                      ELSE Pop(RenderPageToContext(Push(st), seal,
                                                   pages[i].content, top))}} :
             TRUE

\* renderStamp.
RenderStamp(st, r, s, top) ==
    IF s.Type = "ofd" /\ s.Data # "" /\ s.Data \in DOMAIN r.Seals
    THEN LET inner == [st EXCEPT !.FontMap = EmptyMap, !.work = EmptyMap,
                                 !.asked = {}]
             done == RenderSealPages(inner, r.Seals[s.Data].reader,
                                     r.Seals[s.Data].Page, 1, top)
         IN  [done EXCEPT !.FontMap = st.FontMap, !.work = st.work,
                          !.asked = st.asked]
    ELSE IF s.Data = "image"
    THEN Pop(Emit(Push(st), "DrawImage", "stamp", "", top))
    ELSE Pop(EmitIn(EmitIn(Push(st), "DrawPath", "stamp", "placeholder", top,
                           Transparent),
                    "DrawText", "stamp", "Signature", top, Red))

RenderStamps(st, r, stamps, i, outer) ==
    IF i > Len(stamps) THEN st
    ELSE CHOOSE out \in
             {RenderStamps(s1, r, stamps, i + 1, outer) :
              s1 \in {RenderStamp(st, r, stamps[i], TagOf(outer, "stamp", i))}} :
             TRUE

RenderPageLayers(st, r, layers, i, outer) ==
    IF i > Len(layers) THEN st
    ELSE CHOOSE out \in
             {RenderPageLayers(s1, r, layers, i + 1, outer) :
              s1 \in {RenderLayer(st, r, layers[i], TagOf(outer, "layer", i))}} :
             TRUE

\* RenderPageToContext(ctx, page); outer is NoTag for the page being
\* rendered and the stamp's tag for the pages of a seal document.
RenderPageToContext(st, r, page, outer) ==
    LET templated == Len(page.Template) > 0 /\ r.docLoaded
    IN  IF GetPageBox(r, page).err # "nil" THEN st
        ELSE CHOOSE out \in
                 {IF page.ID \in DOMAIN r.Stamps
                  THEN RenderStamps(s4, r, r.Stamps[page.ID], 1, outer)
                  ELSE s4 :
                  s4 \in {IF templated
                          THEN RenderTemplates(s3, r, page.Template, 1, TRUE,
                                               outer)
                          ELSE s3 :
                  s3 \in {RenderPageLayers(s2, r, page.Layer, 1, outer) :
                  s2 \in {IF templated
                          THEN RenderTemplates(s1, r, page.Template, 1, FALSE,
                                               outer)
                          ELSE s1 :
                  s1 \in {EmitIn(st, "DrawPath", "pagebox", "white",
                                 TagOf(outer, "pagebox", 0), White)}}}}} :
                 TRUE

\* Sequences of at most n elements of S.
SeqsUpTo(S, n) == UNION { [1..k -> S] : k \in 0..n }

\* Page content the renders are run on.
TextObj(id, font, decoration) ==
    [ID |-> id, Font |-> font, DrawParam |-> "", Decoration |-> decoration,
     FillColor |-> NoColor,
     TextCode |-> <<[Index |-> <<>>, Value |-> <<"a", "b">>],
                    [Index |-> <<"g7">>, Value |-> <<"x">>]>>]

PathObj(id, fill, stroke, drawParam) ==
    [ID |-> id, Fill |-> fill, Stroke |-> stroke, DrawParam |-> drawParam,
     FillColor |-> NoColor, StrokeColor |-> NoColor]

\* An object with a FillColor or a StrokeColor element of its own.
Filled(obj, c) == [obj EXCEPT !.FillColor = c]
Stroked(obj, c) == [obj EXCEPT !.StrokeColor = c]

ImageObj(id, res) == [ID |-> id, ResourceID |-> res]

Unit(id, images, paths, texts, units) ==
    [ID |-> id, ResourceID |-> "", DrawParam |-> "", ImageObject |-> images,
     PathObject |-> paths, TextObject |-> texts,
     CompositeGraphicUnit |-> units]

LayerOf(id, drawParam, texts, paths, images, units) ==
    [ID |-> id, DrawParam |-> drawParam, TextObject |-> texts,
     PathObject |-> paths, ImageObject |-> images,
     CompositeGraphicUnit |-> units]

\* The layers a page is made of: one with two children of every kind and a
\* nested composite unit; one whose first text names a font whose file cannot be
\* read, whose second text names no font, whose path is not filled and whose
\* images cannot be drawn.
LayerChoices ==
    {LayerOf("L1", "D1",
             <<TextObj("t1", "F1", "Underline"),
               Filled(TextObj("t8", "F3", ""), "")>>,
             <<Stroked(PathObj("p1", "", "", ""), "0 0 255/40"),
               Filled(PathObj("p6", "", "false", ""), "128 128")>>,
             <<ImageObj("i1", "M1"), ImageObj("i5", "M1")>>,
             <<Unit("u1", <<ImageObj("i2", "M1")>>,
                    <<PathObj("p2", "true", "false", "D1")>>,
                    <<TextObj("t2", "F3", "")>>,
                    <<Unit("u2", <<>>, <<>>, <<TextObj("t3", "F1", "")>>,
                           <<>>)>>),
               Unit("u3", <<>>, <<Stroked(PathObj("p7", "", "", ""), "7/40")>>,
                    <<>>, <<>>)>>),
     LayerOf("L2", "",
             <<Filled(TextObj("t4", "F2", ""), "128 128"),
               TextObj("t5", "", "")>>,
             <<Filled(PathObj("p3", "false", "", ""), "300 x 9 9")>>,
             <<ImageObj("i3", "M9"), ImageObj("i4", "M2")>>, <<>>)}

\* The box strings of pages and documents: empty, whitespace only, four
\* numerals, too few fields, and five fields of which one is no numeral.
BoxStrings ==
    {<<>>, <<Sp>>, <<"0", Sp, "0", Sp, "100", Sp, "200">>,
     <<Sp, "5", Sp, "5", Sp, "20", Sp, "30">>, <<"1", Sp, "2", Sp, "3">>,
     <<"0", Sp, "0", Sp, "x", Sp, "9", Sp, "40">>}

\* The PhysicalBox of the pages that are rendered.
PageBoxes == {<<>>, <<"1", Sp, "2", Sp, "3">>}
SealBoxStr == <<"0", Sp, "0", Sp, "40", Sp, "40">>

AreaOf(physical, application, content) ==
    [PhysicalBox |-> physical, ApplicationBox |-> application,
     ContentBox |-> content]

SealArea == AreaOf(SealBoxStr, <<>>, <<>>)

PageOf(id, area, templates, layers) ==
    [ID |-> id, Area |-> area, Template |-> templates, Layer |-> layers]

\* A Renderer with its Reader: what the renders read and never write.
ReaderOf(docLoaded, fonts, stamps, seals) ==
    [docLoaded |-> docLoaded,
     PageArea |-> [PhysicalBox |-> <<>>],
     fontCache |-> fonts,
     ResMap |-> ("M1" :> "Doc/Res/img1.png") @@ ("M2" :> "Doc/Res/img2.png"),
     Files |-> ("Doc/Res/img1.png" :> "image")
               @@ ("Doc/Res/img2.png" :> "unreadable"),
     DrawParams |-> ("D1" :> [FillColor |-> "255 0 0", StrokeColor |-> NoColor,
                              Font |-> "F1", nil |-> FALSE]),
     TemplatePage |->
         ("T1" :> [readable |-> TRUE,
                   Layer |-> <<LayerOf("TL", "", <<TextObj("t6", "F1", "")>>,
                                       <<PathObj("p4", "", "", "")>>, <<>>,
                                       <<>>)>>])
         @@ ("T2" :> [readable |-> FALSE, Layer |-> <<>>]),
     Stamps |-> stamps,
     CompositeGraphicUnits |-> EmptyMap,
     Seals |-> seals]

\* The fonts of the documents pages are rendered from.
PageFonts ==
    ("F1" :> EmbeddedFont(TRUE, TRUE, TRUE, TRUE))
    @@ ("F2" :> EmbeddedFont(FALSE, FALSE, FALSE, FALSE))
    @@ ("F3" :> NamedFont("none"))

\* The seal document an "ofd" stamp carries: its first page cannot be
\* loaded, its second holds one layer.
SealDocument ==
    [reader |-> ReaderOf(TRUE, "F1" :> NamedFont("system"), EmptyMap, EmptyMap),
     Page |-> <<[readable |-> FALSE,
                 content |-> PageOf("S1", SealArea, <<>>, <<>>)],
                [readable |-> TRUE,
                 content |-> PageOf("S2", SealArea, <<>>,
                     <<LayerOf("SL", "", <<TextObj("t7", "F1", "")>>,
                               <<PathObj("p5", "", "", "")>>, <<>>, <<>>)>>)]>>]

\* Stamps: a seal document, an image, and bytes that are neither.
StampChoices ==
    {[Type |-> "ofd", Data |-> "seal"], [Type |-> "png", Data |-> "image"],
     [Type |-> "ofd", Data |-> "garbage"]}

TemplateIDs == {"T1", "T2"}
ZOrders == {"Background", "Foreground"}
TemplateRefs == [TemplateID : TemplateIDs, ZOrder : ZOrders]

\* r.Reader.Stamps: the page's stamps when it has any, and one of another page.
StampsFor(pageID, stamps) ==
    IF stamps = <<>> THEN "P2" :> <<[Type |-> "png", Data |-> "image"]>>
    ELSE (pageID :> stamps) @@ ("P2" :> <<[Type |-> "png", Data |-> "image"]>>)

NoText == TextObj("", "", "")

\* A Renderer after NewRenderer, before any render.
RnIdle(r, page) ==
    /\ rnReader = r
    /\ rnPage = page
    /\ FontMap = EmptyMap
    /\ rnCalls = <<>>
    /\ rnDepth = 0
    /\ rnWork = EmptyMap
    /\ rnAsked = {}
    /\ rnOp = "none"
    /\ rnFontID = ""
    /\ rnText = NoText
    /\ rnRet = NilFont
    /\ rnOps = 0
    /\ rnBox = ParseBox(<<>>)

\* A Renderer and a page of its document.
RnPageInit ==
    \E docLoaded \in BOOLEAN, box \in PageBoxes,
       templates \in SeqsUpTo(TemplateRefs, MaxTemplates),
       layers \in SeqsUpTo(LayerChoices, MaxLayers),
       stamps \in SeqsUpTo(StampChoices, MaxStamps) :
        RnIdle(ReaderOf(docLoaded, PageFonts, StampsFor("P1", stamps),
                        "seal" :> SealDocument),
               PageOf("P1", AreaOf(box, <<>>, <<>>), templates, layers))

\* A Renderer over a document with any font records.
RnFontInit ==
    \E fonts \in MapsOver(FontIDs, FontRecords) :
        RnIdle(ReaderOf(TRUE, fonts, EmptyMap, EmptyMap),
               PageOf("P1", AreaOf(<<>>, <<>>, <<>>), <<>>, <<>>))

\* RenderPageToContext(ctx, page) on a new context, by a new Renderer.
rnRenderPageToContext ==
    /\ rnOps = 0
    /\ \E st \in {RenderPageToContext(NewContext(FontMap, rnWork, rnAsked),
                                        rnReader, rnPage, NoTag)} :
           /\ rnCalls' = st.calls
           /\ rnDepth' = st.depth
           /\ FontMap' = st.FontMap
           /\ rnWork' = st.work
           /\ rnAsked' = st.asked
    /\ rnOp' = "RenderPageToContext"
    /\ rnOps' = rnOps + 1
    /\ UNCHANGED <<rnReader, rnPage, rnFontID, rnText, rnRet, rnBox, NotRn>>

\* loadFont(fontID).
rnLoadFont(fontID) ==
    /\ rnOps < MaxOps
    /\ \E lf \in {LoadFont(NewContext(FontMap, rnWork, rnAsked), rnReader,
                             fontID)} :
           /\ FontMap' = lf.st.FontMap
           /\ rnWork' = lf.st.work
           /\ rnAsked' = lf.st.asked
           /\ rnRet' = lf.ff
    /\ rnOp' = "loadFont"
    /\ rnFontID' = fontID
    /\ rnOps' = rnOps + 1
    /\ rnCalls' = <<>>
    /\ rnDepth' = 0
    /\ UNCHANGED <<rnReader, rnPage, rnText, rnBox, NotRn>>

\* renderText(ctx, obj, ...) on a new context.
rnRenderText(obj) ==
    /\ rnOps < MaxOps
    /\ \E st \in {RenderText(NewContext(FontMap, rnWork, rnAsked), rnReader,
                               obj, NilColor, NoTag)} :
           /\ rnCalls' = st.calls
           /\ rnDepth' = st.depth
           /\ FontMap' = st.FontMap
           /\ rnWork' = st.work
           /\ rnAsked' = st.asked
    /\ rnOp' = "renderText"
    /\ rnText' = obj
    /\ rnOps' = rnOps + 1
    /\ UNCHANGED <<rnReader, rnPage, rnFontID, rnRet, rnBox, NotRn>>

\* GetPageBox(page).
rnGetPageBox ==
    /\ rnOp = "none"
    /\ rnBox' = GetPageBox(rnReader, rnPage)
    /\ rnOp' = "GetPageBox"
    /\ UNCHANGED <<rnReader, rnPage, FontMap, rnCalls, rnDepth, rnWork,
                   rnAsked, rnFontID, rnText, rnRet, rnOps, NotRn>>

\* A Renderer and a page with any box strings, of a document that is not
\* loaded or is loaded with any PhysicalBox.
RnBoxInit ==
    \E physical \in BoxStrings, application \in BoxStrings,
       content \in BoxStrings, docLoaded \in BOOLEAN, docBox \in BoxStrings :
        /\ ~docLoaded => docBox = <<>>
        /\ RnIdle([ReaderOf(docLoaded, EmptyMap, EmptyMap, EmptyMap)
                      EXCEPT !.PageArea = [PhysicalBox |-> docBox]],
                  PageOf("P1", AreaOf(physical, application, content), <<>>,
                         <<>>))

RnBoxNext == rnGetPageBox

RnPageNext == rnRenderPageToContext

RnFontNext ==
    \/ \E fontID \in FontIDs \cup {""} : rnLoadFont(fontID)
    \/ \E font \in FontIDs \cup {""}, decoration \in {"", "Underline"} :
          rnRenderText(TextObj("t1", font, decoration))

\* The group of RenderPageToContext a draw call's page element belongs to:
\* 0 the page box, 1 a template referenced with a ZOrder other than
\* "Foreground", 2 a page layer, 3 a template referenced with ZOrder
\* "Foreground", 4 a stamp.
GroupOf(page, top) ==
    CASE top.kind = "pagebox" -> 0
      [] top.kind = "template" ->
             IF page.Template[top.idx].ZOrder = "Foreground" THEN 3 ELSE 1
      [] top.kind = "layer" -> 2
      [] top.kind = "stamp" -> 4
      [] OTHER -> 5

\* C1: the draw calls of RenderPageToContext come in the order white page-box
\* fill, templates with a ZOrder other than "Foreground" in reference order,
\* page layers in declaration order, templates with ZOrder "Foreground" in
\* reference order, stamps of the page id in registration order: the first
\* call is the white fill and each call belongs to the group and element of
\* the call before it or to a later one, so that no call of a later group or
\* element precedes a call of an earlier one.
C1_DrawGroupOrder ==
    rnOp = "RenderPageToContext" =>
        /\ Len(rnCalls) >= 1
        /\ rnCalls[1] = [op |-> "DrawPath", obj |-> "pagebox", arg |-> "white",
                         top |-> [kind |-> "pagebox", idx |-> 0],
                         col |-> White]
        /\ \A i \in 1..Len(rnCalls) :
              /\ GroupOf(rnPage, rnCalls[i].top) \in 0..4
              /\ GroupOf(rnPage, rnCalls[i].top) = 0 => i = 1
        /\ \A i \in 1..(Len(rnCalls) - 1) :
              LET gi == GroupOf(rnPage, rnCalls[i].top)
                  gj == GroupOf(rnPage, rnCalls[i + 1].top)
              IN  \/ gi < gj
                  \/ gi = gj /\ rnCalls[i].top.idx <= rnCalls[i + 1].top.idx

\* A page whose first template reference is a foreground one and whose second
\* is a background one, with two layers and a stamp, all of which drew.
C1_Witness ==
    /\ rnOp = "RenderPageToContext"
    /\ rnReader.docLoaded
    /\ Len(rnPage.Template) = 2
    /\ rnPage.Template[1].ZOrder = "Foreground"
    /\ rnPage.Template[2].ZOrder = "Background"
    /\ \A top \in {[kind |-> "template", idx |-> 1],
                   [kind |-> "template", idx |-> 2],
                   [kind |-> "layer", idx |-> 1], [kind |-> "layer", idx |-> 2],
                   [kind |-> "stamp", idx |-> 1]} :
          \E i \in 1..Len(rnCalls) : rnCalls[i].top = top

\* C2: when RenderPageToContext returns, the context's state-stack depth is
\* its depth at entry (every Push of renderText, renderPath, renderImage,
\* renderCompositeGraphicUnit and renderStamp has had its Pop).
C2_StackDepthRestored ==
    rnOp = "RenderPageToContext" => rnDepth = 0

\* C5: for a font id with a font record, once loadFont(id) has returned,
\* FontMap holds an entry for id and the font was read, repaired or searched
\* for at most once, whatever the outcome of the load.
C5_FontOutcomeCached ==
    \A id \in DOMAIN rnReader.fontCache :
        id \in rnAsked =>
            /\ id \in DOMAIN FontMap
            /\ WorkOf(rnWork, id) <= 1

\* The glyph draw calls of a call sequence, as the runes they draw.
RECURSIVE GlyphRunes(_)
GlyphRunes(calls) ==
    IF calls = <<>> THEN <<>>
    ELSE (IF Head(calls).op = "DrawText" THEN <<Head(calls).arg>> ELSE <<>>)
         \o GlyphRunes(Tail(calls))

\* The runes of every TextCode of a text object, in order.
RECURSIVE SourceRunes(_)
SourceRunes(codes) ==
    IF codes = <<>> THEN <<>>
    ELSE Runes(Head(codes)) \o SourceRunes(Tail(codes))

\* C6: when the embedded font of a text object cannot be used (its file
\* cannot be read, its repair fails, or the typeface backend rejects the
\* repaired bytes), renderText still emits one glyph draw call per rune of every TextCode,
\* with the source glyph ids and characters, and the font id is served by
\* the default family.
C6_UnusableFontStillRenders ==
    (/\ rnOp = "renderText"
     /\ rnText.Font \in DOMAIN rnReader.fontCache
     /\ rnReader.fontCache[rnText.Font].FontFile # ""
     /\ \/ ~rnReader.fontCache[rnText.Font].readable
        \/ ~rnReader.fontCache[rnText.Font].repairOK
        \/ ~rnReader.fontCache[rnText.Font].fixedLoads)
    => /\ GlyphRunes(rnCalls) = SourceRunes(rnText.TextCode)
       /\ rnText.Font \in DOMAIN FontMap
       /\ FontMap[rnText.Font] = DefaultFont

\* The object of id is drawn by composite unit cgu: it is one of its images,
\* paths or texts or is drawn by one of its units.
RECURSIVE UnitDraws(_, _)
UnitDraws(cgu, id) ==
    \/ \E i \in DOMAIN cgu.ImageObject : cgu.ImageObject[i].ID = id
    \/ \E i \in DOMAIN cgu.PathObject : cgu.PathObject[i].ID = id
    \/ \E i \in DOMAIN cgu.TextObject : cgu.TextObject[i].ID = id
    \/ \E i \in DOMAIN cgu.CompositeGraphicUnit :
          UnitDraws(cgu.CompositeGraphicUnit[i], id)

\* The child list of the layer that draws the object of id (1 text, 2 path,
\* 3 image, 4 composite unit) and the child's position in that list.
ChildOf(layer, id) ==
    IF \E i \in DOMAIN layer.TextObject : layer.TextObject[i].ID = id
    THEN <<1, CHOOSE i \in DOMAIN layer.TextObject :
                  layer.TextObject[i].ID = id>>
    ELSE IF \E i \in DOMAIN layer.PathObject : layer.PathObject[i].ID = id
    THEN <<2, CHOOSE i \in DOMAIN layer.PathObject :
                  layer.PathObject[i].ID = id>>
    ELSE IF \E i \in DOMAIN layer.ImageObject : layer.ImageObject[i].ID = id
    THEN <<3, CHOOSE i \in DOMAIN layer.ImageObject :
                  layer.ImageObject[i].ID = id>>
    ELSE IF \E i \in DOMAIN layer.CompositeGraphicUnit :
               UnitDraws(layer.CompositeGraphicUnit[i], id)
    THEN <<4, CHOOSE i \in DOMAIN layer.CompositeGraphicUnit :
                  UnitDraws(layer.CompositeGraphicUnit[i], id)>>
    ELSE <<0, 0>>

\* C13: within one layer every draw call of a text object precedes every
\* one of a path object, these precede every one of an image object, and
\* these every one of a composite graphic unit; within each of the four
\* lists the children are drawn in declaration order.  (Stated on the draw
\* calls of one layer taken in emission order: each call's child is the
\* child of the call before it or one that comes later in that order.)
C13_LayerChildOrder ==
    rnOp = "RenderPageToContext" =>
        \A k \in 1..Len(rnPage.Layer) :
            LET OfLayer(c) == c.top = [kind |-> "layer", idx |-> k]
                calls == SelectSeq(rnCalls, OfLayer)
            IN  \A i \in 1..Len(calls) :
                    LET ci == ChildOf(rnPage.Layer[k], calls[i].obj)
                        cj == ChildOf(rnPage.Layer[k], calls[i + 1].obj)
                    IN  /\ ci[1] \in 1..4
                        /\ i < Len(calls) =>
                              \/ ci[1] < cj[1]
                              \/ ci[1] = cj[1] /\ ci[2] <= cj[2]

\* A layer with two texts, two paths, two images and two composite units
\* was rendered and each of the eight children drew.
C13_Witness ==
    /\ rnOp = "RenderPageToContext"
    /\ Len(rnPage.Layer) >= 1
    /\ \A g \in 1..4, k \in 1..2 :
          \E i \in 1..Len(rnCalls) :
              /\ rnCalls[i].top = [kind |-> "layer", idx |-> 1]
              /\ ChildOf(rnPage.Layer[1], rnCalls[i].obj) = <<g, k>>

\* The first non-empty string of a list, <<>> when there is none.
RECURSIVE FirstNonEmpty(_, _)
FirstNonEmpty(strs, i) ==
    IF i > Len(strs) THEN <<>>
    ELSE IF strs[i] # <<>> THEN strs[i]
    ELSE FirstNonEmpty(strs, i + 1)

\* The four box strings GetPageBox chooses from, in the order of the claim.
BoxCandidates ==
    <<rnPage.Area.PhysicalBox, rnPage.Area.ApplicationBox,
      rnPage.Area.ContentBox, rnReader.PageArea.PhysicalBox>>

\* C12: GetPageBox returns, without error, the box parsed from the first
\* non-empty string among the page's PhysicalBox, ApplicationBox, ContentBox
\* and the document's PhysicalBox, and (0, 0, 210, 297) when all four are
\* empty; a page with every box empty in a document with PhysicalBox
\* "0 0 100 200" gets (0, 0, 100, 200).
C12_FirstNonEmptyBox ==
    rnOp = "GetPageBox" =>
        LET first == FirstNonEmpty(BoxCandidates, 1)
        IN  /\ rnBox.err = "nil"
            /\ first # <<>> => rnBox = ParseBox(first)
            /\ first = <<>> => rnBox.box = BoxOf(0, 0, 210, 297)
            /\ first = <<"0", Sp, "0", Sp, "100", Sp, "200">>
                   => rnBox.box = BoxOf(0, 0, 100, 200)
            /\ first = <<Sp, "5", Sp, "5", Sp, "20", Sp, "30">>
                   => rnBox.box = BoxOf(5, 5, 20, 30)

\* A page with every box field empty in a document with PhysicalBox
\* "0 0 100 200" got (0, 0, 100, 200).
C12_Witness ==
    /\ rnOp = "GetPageBox"
    /\ rnPage.Area = AreaOf(<<>>, <<>>, <<>>)
    /\ rnReader.docLoaded
    /\ rnReader.PageArea.PhysicalBox = <<"0", Sp, "0", Sp, "100", Sp, "200">>
    /\ rnBox.box = BoxOf(0, 0, 100, 200)

\* A colour element whose Value has fewer than three components.
ShortColour(c) == c # NoColor /\ Len(Fields(ColorElems[c].Value, 1)) < 3

\* The ids of the path and text objects of a layer or composite unit, nested
\* units included, that carry such a colour of their own.
RECURSIVE ShortColourIDs(_)
ShortColourIDs(unit) ==
    {unit.PathObject[i].ID : i \in
        {j \in DOMAIN unit.PathObject :
            \/ ShortColour(unit.PathObject[j].FillColor)
            \/ ShortColour(unit.PathObject[j].StrokeColor)}}
    \cup {unit.TextObject[i].ID : i \in
        {j \in DOMAIN unit.TextObject :
            ShortColour(unit.TextObject[j].FillColor)}}
    \cup UNION {ShortColourIDs(unit.CompositeGraphicUnit[i]) :
                    i \in DOMAIN unit.CompositeGraphicUnit}

\* The same layer or composite unit with every such colour replaced by the
\* element "0 0 0" without Alpha.
BlackIfShort(c) == IF ShortColour(c) THEN "0 0 0" ELSE c
RECURSIVE Blackened(_)
Blackened(unit) ==
    [unit EXCEPT
        !.PathObject = [i \in DOMAIN @ |->
            [@[i] EXCEPT !.FillColor = BlackIfShort(@),
                         !.StrokeColor = BlackIfShort(@)]],
        !.TextObject = [i \in DOMAIN @ |->
            [@[i] EXCEPT !.FillColor = BlackIfShort(@)]],
        !.CompositeGraphicUnit = [i \in DOMAIN @ |-> Blackened(@[i])]]

\* C20 as stated: a path or text object of a page layer whose fill or stroke
\* colour string has fewer than three components emits no draw call.
C20_ShortColourSkipped ==
    rnOp = "RenderPageToContext" =>
        \A k \in 1..Len(rnPage.Layer) : \A i \in 1..Len(rnCalls) :
            rnCalls[i].top = [kind |-> "layer", idx |-> k] =>
                rnCalls[i].obj \notin ShortColourIDs(rnPage.Layer[k])

\* C20, amended: a colour string of fewer than three components is read as
\* opaque black and the object is not skipped; every page layer emits exactly
\* the draw calls, colours included, that it emits when every such colour is
\* the opaque black "0 0 0", so that the object and the remaining objects of
\* its layer are drawn as they are with that colour.
C20_ShortColourIsBlack ==
    rnOp = "RenderPageToContext" =>
        \A k \in 1..Len(rnPage.Layer) :
            LET tag == [kind |-> "layer", idx |-> k]
                OfLayer(c) == c.top = tag
            IN  SelectSeq(rnCalls, OfLayer) =
                    RenderLayer(NewContext(EmptyMap, EmptyMap, {}), rnReader,
                                Blackened(rnPage.Layer[k]), tag).calls

\* A rendered layer in which a path with a two-component fill colour is
\* filled in black, a text with an empty colour string is drawn in black, a
\* path whose one-component stroke colour carries an Alpha is stroked in
\* opaque black, and a later object of the layer is drawn after them.
C20_Witness ==
    /\ rnOp = "RenderPageToContext"
    /\ \E k \in 1..Len(rnPage.Layer) :
          /\ {"p6", "t8", "p7"} \subseteq ShortColourIDs(rnPage.Layer[k])
          /\ \E a, b, c, d \in 1..Len(rnCalls) :
                /\ a < b /\ b < c /\ c < d
                /\ \A i \in {a, b, c, d} :
                      rnCalls[i].top = [kind |-> "layer", idx |-> k]
                /\ rnCalls[a].obj = "t8" /\ rnCalls[a].op = "DrawText"
                /\ rnCalls[a].col = Black
                /\ rnCalls[b].obj = "p6" /\ rnCalls[b].arg = "fill"
                /\ rnCalls[b].col = Black
                /\ rnCalls[c].obj = "i1" /\ rnCalls[c].op = "DrawImage"
                /\ rnCalls[d].obj = "p7" /\ rnCalls[d].arg = "stroke"
                /\ rnCalls[d].col = Black

(***************************************************************************)
(* Embedded font repair: FixFontDataAggressive, fixTrueType, wrapCFFToOTF, *)
(* sanitizeCFF, serializeOTF, scanCharStringWidth                          *)
(***************************************************************************)

\* A []byte is a sequence of numbers in 0..255; the code counts from 0.
Byte == 0..255
At(data, i) == data[i + 1]
\* data[from:to], for 0 <= from <= to <= len(data).
Slice(data, from, to) == SubSeq(data, from + 1, to)

\* A float64 is held in units of 1/65536: the values the width scan meets
\* are integers and 16.16 fixed-point numbers.
One == 65536

\* int16(u) of a uint16.
Int16(u) == IF u >= 32768 THEN u - 65536 ELSE u
\* binary.BigEndian.Uint16(data[i:]), for i + 2 <= len(data).
Uint16At(data, i) == At(data, i) * 256 + At(data, i + 1)

\* What an operation returned: whether it panicked, whether it reported
\* success, the bytes and the width it returned.
FtResult(panic, ok, data, w) ==
    [panic |-> panic, ok |-> ok, data |-> data, w |-> w]
FtNone == FtResult(FALSE, FALSE, <<>>, 0)
Panicked == FtResult(TRUE, FALSE, <<>>, 0)

\* A number read from a CharString, or the panic of an index out of range.
NumPanic == [panic |-> TRUE, v |-> 0]
Num(v) == [panic |-> FALSE, v |-> v]

\* parseShortInt.
ParseShortInt(data, idx) ==
    IF idx + 3 > Len(data) THEN NumPanic
    ELSE Num(Int16(Uint16At(data, idx + 1)) * One)

\* parseNumberType2, for idx < len(data).
ParseNumberType2NoFraction(data, idx) ==
    LET b == At(data, idx)
    IN  IF b >= 32 /\ b <= 246 THEN Num((b - 139) * One)
        ELSE IF b >= 247 /\ b <= 250
        THEN IF idx + 1 >= Len(data) THEN NumPanic
             ELSE Num(((b - 247) * 256 + At(data, idx + 1) + 108) * One)
        ELSE IF b >= 251 /\ b <= 254
        THEN IF idx + 1 >= Len(data) THEN NumPanic
             ELSE Num((0 - (b - 251) * 256 - At(data, idx + 1) - 108) * One)
        ELSE IF b = 28
        THEN IF idx + 3 > Len(data) THEN NumPanic
             ELSE Num(Int16(Uint16At(data, idx + 1)) * One)
        ELSE IF b = 255
        THEN IF idx + 5 > Len(data) THEN NumPanic
             ELSE Num(Int16(Uint16At(data, idx + 1)) * One)
        ELSE Num(0)
ParseNumberType2(data, idx) ==
    LET b == At(data, idx)
    IN  IF b >= 32 /\ b <= 246 THEN Num((b - 139) * One)
        ELSE IF b >= 247 /\ b <= 250
        THEN IF idx + 1 >= Len(data) THEN NumPanic
             ELSE Num(((b - 247) * 256 + At(data, idx + 1) + 108) * One)
        ELSE IF b >= 251 /\ b <= 254
        THEN IF idx + 1 >= Len(data) THEN NumPanic
             ELSE Num((0 - (b - 251) * 256 - At(data, idx + 1) - 108) * One)
        ELSE IF b = 28
        THEN IF idx + 3 > Len(data) THEN NumPanic
             ELSE Num(Int16(Uint16At(data, idx + 1)) * One)
        ELSE IF b = 255
        THEN IF idx + 5 > Len(data) THEN NumPanic
             ELSE Num(Int16(Uint16At(data, idx + 1)) * One
                      + Uint16At(data, idx + 3))
        ELSE Num(0)

\* The loop of scanCharStringWidth from position i on, with stackDepth
\* operands counted and firstVal the first of them.
RECURSIVE ScanCharString(_, _, _, _, _, _)
ScanCharString(data, i, stackDepth, firstVal, nominal, def) ==
    LET width == IF stackDepth % 2 # 0 THEN nominal + firstVal ELSE def
        b == At(data, i)
    IN  IF i >= Len(data) THEN FtResult(FALSE, TRUE, <<>>, def)
        ELSE IF b <= 31
        THEN IF b = 28
             THEN LET n == IF stackDepth + 1 = 1 THEN ParseShortInt(data, i)
                           ELSE Num(firstVal)
                  IN  IF n.panic THEN Panicked
                      ELSE ScanCharString(data, i + 3, stackDepth + 1, n.v,
                                          nominal, def)
             ELSE IF b = 29
             THEN ScanCharString(data, i + 5, stackDepth + 1, firstVal,
                                 nominal, def)
             ELSE FtResult(FALSE, TRUE, <<>>, width)
        ELSE LET n == IF stackDepth + 1 = 1 THEN ParseNumberType2(data, i)
                      ELSE Num(firstVal)
                 step == IF b <= 246 THEN 1 ELSE IF b <= 254 THEN 2 ELSE 5
             IN  IF n.panic THEN Panicked
                 ELSE ScanCharString(data, i + step, stackDepth + 1, n.v,
                                     nominal, def)

\* scanCharStringWidth.
ScanCharStringWidth(data, nominal, def) ==
    ScanCharString(data, 0, 0, 0, nominal, def)

\* binary.Write of a 16-bit and of a 32-bit number, big-endian; a negative
\* number is written in two's complement.
U16(n) == <<(n \div 256) % 256, n % 256>>
U32(n) == U16((n \div 65536) % 65536) \o U16(n % 65536)

\* The Type 2 operand encodings of the number v/65536: the one-byte, the
\* two-byte, the 28-prefixed and the 255-prefixed form, each where it can
\* hold the number.
Type2Encodings(v) ==
    LET x == v \div One
        whole == v % One = 0
    IN  (IF whole /\ x >= -107 /\ x <= 107 THEN {<<x + 139>>} ELSE {})
        \cup (IF whole /\ x >= 108 /\ x <= 1131
              THEN {<<247 + ((x - 108) \div 256), (x - 108) % 256>>} ELSE {})
        \cup (IF whole /\ x >= -1131 /\ x <= -108
              THEN {<<251 + ((0 - x - 108) \div 256), (0 - x - 108) % 256>>}
              ELSE {})
        \cup (IF whole /\ x >= -32768 /\ x <= 32767
              THEN {<<28>> \o U16(x % 65536)} ELSE {})
        \cup {<<255>> \o U32(v)}

\* The numbers the CharStrings hold: the ends of the ranges of the
\* encodings, and fractions.
OperandValues ==
    {x * One : x \in {-30000, -1132, -1131, -364, -363, -108, -107, 0, 107,
                      108, 363, 364, 1131, 1132, 30000}}
    \cup {One + 32768, -1, 0 - One - 16384, 30000 * One + 65535}

\* What follows the operand: endchar, nothing, a second operand and endchar,
\* an operator of two bytes, hintmask.
CharStringTails == {<<14>>, <<>>, <<139, 14>>, <<12, 34>>, <<19, 0>>}

\* CharStrings without a well-formed first operand: endchar alone, the empty
\* CharString, truncated operands, a 29-prefixed number.
OtherCharStrings ==
    {<<14>>, <<>>, <<28, 1>>, <<28>>, <<247>>, <<254>>, <<255, 0, 1>>,
     <<139, 28, 1>>, <<139, 251>>, <<29, 0, 0, 0, 1, 14>>, <<29, 0>>}

CharStrings ==
    {enc \o tail : enc \in UNION {Type2Encodings(v) : v \in OperandValues},
                   tail \in CharStringTails}
    \cup OtherCharStrings

WidthValues == {0, 500 * One, 0 - 20 * One, 32768}

\* n zero bytes.
Zeros(n) == [i \in 1..n |-> 0]

\* binary.Write of each number of a []uint16 in turn.
U16s(ws) ==
    [i \in 1..(2 * Len(ws)) |->
        IF i % 2 = 1 THEN (ws[(i + 1) \div 2] \div 256) % 256
        ELSE ws[i \div 2] % 256]

\* A uint32 is held as its two 16-bit halves, so that sums that wrap modulo
\* 2^32 can be computed.
W32(hi, lo) == [hi |-> hi, lo |-> lo]
U32W(w) == U16(w.hi) \o U16(w.lo)
\* binary.BigEndian.Uint32(data[i:i+4]).
W32At(data, i) == W32(Uint16At(data, i), Uint16At(data, i + 2))
\* a + b and a - b in uint32 arithmetic.
Add32(a, b) ==
    W32((a.hi + b.hi + ((a.lo + b.lo) \div 65536)) % 65536,
        (a.lo + b.lo) % 65536)
Sub32(a, b) ==
    W32((a.hi - b.hi - (IF a.lo < b.lo THEN 1 ELSE 0)) % 65536,
        (a.lo - b.lo) % 65536)
\* The int a uint32 below 2^31 converts to.
IntOf(w) == w.hi * 65536 + w.lo

\* The tags of the tables, as the four bytes of the string.
TagHead == <<104, 101, 97, 100>>
TagMaxp == <<109, 97, 120, 112>>
TagHhea == <<104, 104, 101, 97>>
TagHmtx == <<104, 109, 116, 120>>
TagOS2 == <<79, 83, 47, 50>>
TagCmap == <<99, 109, 97, 112>>
TagName == <<110, 97, 109, 101>>
TagPost == <<112, 111, 115, 116>>
TagCFF == <<67, 70, 70, 32>>
TagGlyf == <<103, 108, 121, 102>>
OTTO == <<79, 84, 84, 79>>
TrueTag == <<116, 114, 117, 101>>
TtcfTag == <<116, 116, 99, 102>>
PfEd == <<80, 102, 69, 100>>

\* The sum of the bytes of data[from..to] (counted from 0) that lie in the
\* upper half (half = 0) or the lower half (half = 1) of their 32-bit word,
\* each with its weight in that half.
RECURSIVE HalfSum(_, _, _, _)
HalfSum(data, from, to, half) ==
    IF from > to THEN 0
    ELSE IF from = to
    THEN IF (from % 4) \div 2 # half THEN 0
         ELSE IF from % 2 = 0 THEN At(data, from) * 256 ELSE At(data, from)
    ELSE LET mid == (from + to) \div 2
         IN  HalfSum(data, from, mid, half) + HalfSum(data, mid + 1, to, half)

\* calcTableChecksum: the sum modulo 2^32 of the big-endian 32-bit words of
\* data, a last word of fewer than four bytes padded with zeros.
CalcTableChecksum(data) ==
    LET loSum == HalfSum(data, 0, Len(data) - 1, 1)
        hiSum == HalfSum(data, 0, Len(data) - 1, 0)
    IN  W32((hiSum + (loSum \div 65536)) % 65536, loSum % 65536)

\* buildHeadTable.
BuildHeadTable(unitsPerEm) ==
    U16(1) \o U16(0) \o U32(0) \o U32(0) \o U32W(W32(24335, 15605)) \o U16(0)
    \o U16(unitsPerEm) \o Zeros(8) \o Zeros(8) \o U16(0) \o U16(-500)
    \o U16(1000) \o U16(1000) \o U16(0) \o U16(0) \o U16(2) \o U16(0)
    \o U16(0)

\* buildHheaTable.
BuildHheaTable(numGlyphs) ==
    U16s(<<1, 0, 800, -200, 0, 1000, 0, 0, 1000, 0, 0, 0, 0, 0, 0, 0, 0,
           numGlyphs>>)

\* buildMaxpTable.
BuildMaxpTable(numGlyphs) == U32(20480) \o U16(numGlyphs)

\* buildOS2TableWithMetrics.
BuildOS2TableWithMetrics(ascender, descender) ==
    U16s(<<3, 500, 400, 5, 0, 250, 250, 0, 0, 250, 250, 0, 0, 50, 250, 0>>)
    \o Zeros(10) \o Zeros(16) \o PfEd
    \o U16s(<<64, 0, 255, ascender, descender, 0, ascender,
              IF descender < 0 THEN 0 - descender ELSE descender>>)
    \o Zeros(8) \o U16s(<<0, 0, 0, 0, 0>>)

\* buildNameTable.
BuildNameTable == U16s(<<0, 0, 6>>)

\* buildPostTable.
BuildPostTable == U32(196608) \o U32(0) \o U16(0) \o U16(0) \o Zeros(20)

\* buildHmtxTable.
BuildHmtxTable(widths) ==
    U16s([i \in 1..(2 * Len(widths)) |->
             IF i % 2 = 1 THEN widths[(i + 1) \div 2] ELSE 0])

\* A map[rune]uint16: nil, or the glyph of each rune it holds.
NilMapping == [nil |-> TRUE, m |-> [r \in {} |-> 0]]
Mapping(m) == [nil |-> FALSE, m |-> m]

\* The segments buildCmapTable makes of the runes of the mapping: one for
\* every maximal run of consecutive runes, in ascending order.
RECURSIVE RunsFrom(_, _)
RunsFrom(codes, starts) ==
    IF starts = {} THEN <<>>
    ELSE LET start == CHOOSE c \in starts : \A d \in starts : c <= d
             end == CHOOSE c \in codes :
                        /\ c >= start
                        /\ c + 1 \notin codes
                        /\ \A d \in start..c : d \in codes
         IN  <<[start |-> start, end |-> end, delta |-> 0]>>
             \o RunsFrom(codes, starts \ {start})

CmapSegments(numGlyphs, mapping) ==
    (IF mapping.nil
     THEN <<[start |-> 0,
             end |-> IF numGlyphs > 0 THEN numGlyphs - 1 ELSE 65535,
             delta |-> 0]>>
     ELSE LET codes == {r \in DOMAIN mapping.m : r <= 65535}
          IN  RunsFrom(codes, {c \in codes : c - 1 \notin codes}))
    \o <<[start |-> 65535, end |-> 65535, delta |-> 1]>>

\* searchRange and entrySelector of buildCmapTable.
RECURSIVE CmapSearch(_, _, _)
CmapSearch(searchRange, entrySelector, segCount) ==
    IF searchRange * 2 <= segCount
    THEN CmapSearch(searchRange * 2, entrySelector + 1, segCount)
    ELSE [searchRange |-> searchRange * 2, entrySelector |-> entrySelector]

\* The idDelta, idRangeOffset and glyphIds columns, segment k onwards, with
\* glyphs the number of glyph ids written so far.
RECURSIVE CmapColumns(_, _, _, _)
CmapColumns(segs, mapping, k, glyphs) ==
    IF k > Len(segs)
    THEN [idDeltas |-> <<>>, idRangeOffsets |-> <<>>, glyphIds |-> <<>>]
    ELSE LET sg == segs[k]
             plain == mapping.nil \/ sg.start = 65535
             ids == IF plain THEN <<>>
                    ELSE [i \in 1..(sg.end - sg.start + 1) |->
                             mapping.m[sg.start + i - 1]]
             rest == CmapColumns(segs, mapping, k + 1, glyphs + Len(ids))
             delta == IF mapping.nil THEN 0
                      ELSE IF sg.start = 65535 THEN 1 ELSE 0
             offset == IF plain THEN 0
                       ELSE (Len(segs) - (k - 1) - 1) * 2 + 2 + glyphs * 2
         IN  [idDeltas |-> <<delta>> \o rest.idDeltas,
              idRangeOffsets |-> <<offset>> \o rest.idRangeOffsets,
              glyphIds |-> ids \o rest.glyphIds]

\* buildCmapTable.
BuildCmapTable(numGlyphs, mapping) ==
    LET segs == CmapSegments(numGlyphs, mapping)
        segCount == Len(segs)
        search == CmapSearch(1, 0, segCount)
        cols == CmapColumns(segs, mapping, 1, 0)
        body == U16s([k \in 1..segCount |-> segs[k].end]) \o U16(0)
                \o U16s([k \in 1..segCount |-> segs[k].start])
                \o U16s(cols.idDeltas) \o U16s(cols.idRangeOffsets)
                \o U16s(cols.glyphIds)
        data == U16(4) \o U16(14 + Len(body)) \o U16(0) \o U16(segCount * 2)
                \o U16(search.searchRange) \o U16(search.entrySelector)
                \o U16(segCount * 2 - search.searchRange) \o body
    IN  U16s(<<0, 1, 3, 1>>) \o U32(12) \o data

\* Go's order of strings of four bytes, which is that of their bytes; and
\* the order that reads capital letters as small ones.
TagBeforeFolded(a, b) ==
    LET Fold(c) == IF c >= 65 /\ c <= 90 THEN c + 32 ELSE c
    IN  \E i \in 1..4 : Fold(a[i]) < Fold(b[i])
                        /\ \A j \in 1..(i - 1) : Fold(a[j]) = Fold(b[j])
TagBefore(a, b) ==
    \E i \in 1..4 : a[i] < b[i] /\ \A j \in 1..(i - 1) : a[j] = b[j]

\* sort.Strings of the tags of a table map.
RECURSIVE SortTags(_)
SortTags(tags) ==
    IF tags = {} THEN <<>>
    ELSE LET first == CHOOSE t \in tags :
                          \A u \in tags \ {t} : TagBefore(t, u)
         IN  <<first>> \o SortTags(tags \ {first})

\* entrySelector of serializeOTF.
RECURSIVE OtfEntrySelector(_, _)
OtfEntrySelector(entrySelector, numTables) ==
    IF 2 ^ (entrySelector + 1) <= numTables
    THEN OtfEntrySelector(entrySelector + 1, numTables)
    ELSE entrySelector

\* A table padded with zeros to a multiple of four bytes.
Padded(data) == data \o Zeros((4 - (Len(data) % 4)) % 4)

\* The table records of serializeOTF from tag k onwards: checksum, offset
\* and length of each table, and its padded data.
RECURSIVE OtfRecords(_, _, _, _)
OtfRecords(tables, tags, k, offset) ==
    IF k > Len(tags) THEN <<>>
    ELSE LET padded == Padded(tables[tags[k]])
         IN  <<[tag |-> tags[k], checksum |-> CalcTableChecksum(padded),
                offset |-> offset, length |-> Len(tables[tags[k]]),
                data |-> padded]>>
             \o OtfRecords(tables, tags, k + 1, offset + Len(padded))

RECURSIVE OtfDirectory(_, _)
OtfDirectory(records, k) ==
    IF k > Len(records) THEN <<>>
    ELSE records[k].tag \o U32W(records[k].checksum)
         \o U32(records[k].offset) \o U32(records[k].length)
         \o OtfDirectory(records, k + 1)

RECURSIVE OtfBody(_, _)
OtfBody(records, k) ==
    IF k > Len(records) THEN <<>>
    ELSE records[k].data \o OtfBody(records, k + 1)

\* data with the four bytes at position i replaced.
PutUint32(data, i, four) ==
    [j \in 1..Len(data) |->
        IF j > i /\ j <= i + 4 THEN four[j - i] ELSE data[j]]

\* 0xB1B0AFBA.
ChecksumMagic == W32(45488, 44986)

\* serializeOTF (its error is always nil).
SerializeOTFNoZero(tables) ==
    LET numTables == Cardinality(DOMAIN tables)
        entrySelector == OtfEntrySelector(0, numTables)
        searchRange == 2 ^ (entrySelector + 4)
        rangeShift == numTables * 16 - searchRange
        tags == SortTags(DOMAIN tables)
        records == OtfRecords(tables, tags, 1, 12 + 16 * numTables)
        fullData == (IF TagCFF \in DOMAIN tables THEN OTTO ELSE U32(65536))
                    \o U16(numTables) \o U16(searchRange)
                    \o U16(entrySelector) \o U16(rangeShift)
                    \o OtfDirectory(records, 1) \o OtfBody(records, 1)
        heads == {k \in 1..Len(records) : records[k].tag = TagHead}
    IN  IF heads = {} THEN fullData
        ELSE LET adjOffset == records[CHOOSE k \in heads : TRUE].offset + 8
             IN  IF adjOffset + 4 <= Len(fullData)
                 THEN PutUint32(fullData, adjOffset,
                          U32W(Sub32(ChecksumMagic,
                                     CalcTableChecksum(fullData))))
                 ELSE fullData
SerializeOTF(tables) ==
    LET numTables == Cardinality(DOMAIN tables)
        entrySelector == OtfEntrySelector(0, numTables)
        searchRange == 2 ^ (entrySelector + 4)
        rangeShift == numTables * 16 - searchRange
        tags == SortTags(DOMAIN tables)
        records == OtfRecords(tables, tags, 1, 12 + 16 * numTables)
        fullData == (IF TagCFF \in DOMAIN tables THEN OTTO ELSE U32(65536))
                    \o U16(numTables) \o U16(searchRange)
                    \o U16(entrySelector) \o U16(rangeShift)
                    \o OtfDirectory(records, 1) \o OtfBody(records, 1)
        heads == {k \in 1..Len(records) : records[k].tag = TagHead}
    IN  IF heads = {} THEN fullData
        ELSE LET adjOffset == records[CHOOSE k \in heads : TRUE].offset + 8
                 zeroed == PutUint32(fullData, adjOffset, Zeros(4))
             IN  IF adjOffset + 4 <= Len(fullData)
                 THEN PutUint32(fullData, adjOffset,
                          U32W(Sub32(ChecksumMagic, CalcTableChecksum(zeroed))))
                 ELSE fullData

\* The table directory of an sfnt, as a reader of the file finds it: tag,
\* offset and length of each of the numTables entries.
SfntDirectory(out) ==
    [k \in 1..Uint16At(out, 4) |->
        [tag |-> Slice(out, 12 + 16 * (k - 1), 16 + 16 * (k - 1)),
         offset |-> IntOf(W32At(out, 20 + 16 * (k - 1))),
         length |-> IntOf(W32At(out, 24 + 16 * (k - 1)))]]
SfntTags(out) == {SfntDirectory(out)[k].tag : k \in DOMAIN SfntDirectory(out)}
SfntEntry(out, tag) ==
    SfntDirectory(out)[CHOOSE k \in DOMAIN SfntDirectory(out) :
                           SfntDirectory(out)[k].tag = tag]

\* The sum modulo 2^32 of the 32-bit words from..to of a file of whole
\* words.
RECURSIVE Sum32(_, _, _)
Sum32(data, from, to) ==
    IF from > to THEN W32(0, 0)
    ELSE IF from = to THEN W32At(data, 4 * from)
    ELSE Add32(Sum32(data, from, (from + to) \div 2),
               Sum32(data, ((from + to) \div 2) + 1, to))

\* a < b and a <= n for uint32 a, b and an int n >= 0.
Less32(a, b) == a.hi < b.hi \/ (a.hi = b.hi /\ a.lo < b.lo)
AtMost32(a, n) ==
    a.hi < n \div 65536 \/ (a.hi = n \div 65536 /\ a.lo <= n % 65536)

\* A table map with one more entry.
WithTable(tables, tag, data) ==
    [t \in DOMAIN tables \cup {tag} |-> IF t = tag THEN data ELSE tables[t]]
NoTables == [t \in {} |-> <<>>]

\* The directory loop of fixTrueType from entry i on: the tables whose
\* offset + length, added as uint32, is at most len(data).  The slice
\* data[offset : offset+length] panics when that sum has wrapped below
\* offset.
RECURSIVE ExistingTables(_, _, _, _)
ExistingTables(data, i, numTables, tables) ==
    LET pos == 12 + 16 * i
        tag == Slice(data, pos, pos + 4)
        offset == W32At(data, pos + 8)
        length == W32At(data, pos + 12)
        end == Add32(offset, length)
    IN  IF i >= numTables \/ Len(data) < pos + 16
        THEN [panic |-> FALSE, tables |-> tables]
        ELSE IF ~AtMost32(end, Len(data))
        THEN ExistingTables(data, i + 1, numTables, tables)
        ELSE IF Less32(end, offset)
        THEN [panic |-> TRUE, tables |-> tables]
        ELSE ExistingTables(data, i + 1, numTables,
                 WithTable(tables, tag,
                           Slice(data, IntOf(offset), IntOf(end))))

\* hasUsableCmap: the sub-table loop from record i on.
RECURSIVE UsableFrom(_, _, _)
UsableFrom(data, i, numTables) ==
    LET pos == 4 + 8 * i
    IN  IF i >= numTables \/ Len(data) < pos + 8 THEN FALSE
        ELSE IF Uint16At(data, pos) \in {0, 3} THEN TRUE
        ELSE UsableFrom(data, i + 1, numTables)
\* hasUsableCmap; and the one that takes a Unicode sub-table only.
HasUsableCmapUnicode(data) ==
    /\ Len(data) >= 4
    /\ \E i \in 0..(Uint16At(data, 2) - 1) :
           /\ Len(data) >= 12 + 8 * i
           /\ \A j \in 0..i : Uint16At(data, 4 + 8 * j) = IF j = i THEN 0 ELSE 1
HasUsableCmap(data) ==
    IF Len(data) < 4 THEN FALSE ELSE UsableFrom(data, 0, Uint16At(data, 2))

\* The tables fixTrueType must find or make.
RequiredTags ==
    {TagHead, TagMaxp, TagHhea, TagHmtx, TagOS2, TagCmap, TagName, TagPost}

\* The required tables fixTrueType takes as missing.
MissingTags(existing) ==
    (RequiredTags \ DOMAIN existing)
    \cup {t \in {TagCmap} \cap DOMAIN existing : ~HasUsableCmap(existing[t])}

\* The glyph count fixTrueType works with.
NumGlyphsOf(existing) ==
    LET n == IF TagMaxp \in DOMAIN existing /\ Len(existing[TagMaxp]) >= 6
             THEN Uint16At(existing[TagMaxp], 4) ELSE 0
    IN  IF n = 0 THEN 255 ELSE n

\* The tables fixTrueType hands to serializeOTF.
NewTables(existing, fixCmap, fixName) ==
    LET missing == MissingTags(existing)
        numGlyphs == NumGlyphsOf(existing)
        t1 == IF TagHead \in missing
              THEN WithTable(existing, TagHead, BuildHeadTable(1000))
              ELSE existing
        t2 == IF TagMaxp \in missing
              THEN WithTable(t1, TagMaxp, BuildMaxpTable(numGlyphs)) ELSE t1
        t3 == IF TagHhea \in missing
              THEN WithTable(t2, TagHhea, BuildHheaTable(numGlyphs)) ELSE t2
        t4 == IF TagHmtx \in missing
              THEN WithTable(t3, TagHmtx,
                             BuildHmtxTable([i \in 1..numGlyphs |-> 500]))
              ELSE t3
        hhea == t4[TagHhea]
        ascender == IF Len(hhea) >= 10 THEN Int16(Uint16At(hhea, 4)) ELSE 800
        descender == IF Len(hhea) >= 10 THEN Int16(Uint16At(hhea, 6))
                     ELSE -200
        t5 == IF TagOS2 \in missing
              THEN WithTable(t4, TagOS2,
                             BuildOS2TableWithMetrics(ascender, descender))
              ELSE t4
        t6 == IF TagCmap \in missing /\ fixCmap
              THEN WithTable(t5, TagCmap,
                       BuildCmapTable(numGlyphs,
                           Mapping([r \in 0..(numGlyphs - 1) |-> r])))
              ELSE t5
        t7 == IF TagName \in missing /\ fixName
              THEN WithTable(t6, TagName, BuildNameTable) ELSE t6
    IN  IF TagPost \in missing THEN WithTable(t7, TagPost, BuildPostTable)
        ELSE t7

\* fixTrueType: whether it fixed the font, and the font it returns.
FixTrueType(data, fixCmap, fixName) ==
    IF Len(data) < 12 THEN FtResult(FALSE, FALSE, data, 0)
    ELSE LET scan == ExistingTables(data, 0, Uint16At(data, 4), NoTables)
         IN  IF scan.panic THEN Panicked
             ELSE IF MissingTags(scan.tables) = {}
             THEN FtResult(FALSE, FALSE, data, 0)
             ELSE FtResult(FALSE, TRUE,
                      SerializeOTF(NewTables(scan.tables, fixCmap, fixName)),
                      0)

(***************************************************************************)
(* The CFF wrap: wrapCFFToOTF and what it calls.                           *)
(***************************************************************************)

\* A float64 operand of a DICT, held exactly as the decimal m * 10^e with
\* e <= 0 and m not a multiple of ten unless e = 0.  Sums and products are
\* the decimal ones: they are the float64 results for the integers and for
\* the scalings by powers of two that the fonts below hold.
RECURSIVE Dec(_, _)
Dec(m, e) ==
    IF e < 0 /\ m % 10 = 0 THEN Dec(m \div 10, e + 1)
    ELSE IF e > 0 THEN Dec(m * 10, e - 1)
    ELSE [m |-> m, e |-> e]
DecInt(n) == [m |-> n, e |-> 0]
DecMul(a, b) == Dec(a.m * b.m, a.e + b.e)
DecAdd(a, b) ==
    LET e == IF a.e < b.e THEN a.e ELSE b.e
    IN  Dec(a.m * 10 ^ (a.e - e) + b.m * 10 ^ (b.e - e), e)
\* int(val): the integer part, towards zero.
DecTrunc(a) ==
    IF a.m >= 0 THEN a.m \div 10 ^ (0 - a.e)
    ELSE 0 - ((0 - a.m) \div 10 ^ (0 - a.e))
\* math.Round(1.0 / val) for val > 0.
RoundInverse(a) == (2 * 10 ^ (0 - a.e) + a.m) \div (2 * a.m)

\* int32 of a big-endian uint32.
Int32At(data, i) ==
    Int16(Uint16At(data, i)) * 65536 + Uint16At(data, i + 2)

\* readCFFOffset: the bytes of the offset that lie inside data.
RECURSIVE ReadCFFOffsetFrom(_, _, _, _, _)
ReadCFFOffsetFrom(data, pos, size, i, val) ==
    IF i >= size THEN val
    ELSE ReadCFFOffsetFrom(data, pos, size, i + 1,
             IF pos + i < Len(data) THEN val * 256 + At(data, pos + i)
             ELSE val)
ReadCFFOffset(data, pos, size) == ReadCFFOffsetFrom(data, pos, size, 0, 0)

\* getCFFIndexCount: the count of the INDEX at offset and the size it
\* declares.  data[offset:] panics for a negative offset.
IndexCount(panic, count, size) ==
    [panic |-> panic, count |-> count, size |-> size]
GetCFFIndexCount(data, offset) ==
    IF offset + 2 > Len(data) THEN IndexCount(FALSE, 0, 0)
    ELSE IF offset < 0 THEN IndexCount(TRUE, 0, 0)
    ELSE LET count == Uint16At(data, offset)
             offSize == At(data, offset + 2)
             endOffsetPos == offset + 3 + count * offSize
             dataEnd == ReadCFFOffset(data, endOffsetPos, offSize)
         IN  IF count = 0 THEN IndexCount(FALSE, 0, 2)
             ELSE IF offset + 3 > Len(data) THEN IndexCount(FALSE, 0, 0)
             ELSE IF offSize < 1 \/ offSize > 4 THEN IndexCount(FALSE, 0, 0)
             ELSE IF offset + 3 + (count + 1) * offSize > Len(data)
             THEN IndexCount(FALSE, 0, 0)
             ELSE IF endOffsetPos + offSize > Len(data)
             THEN IndexCount(FALSE, 0, 0)
             ELSE IF dataEnd < 1 THEN IndexCount(FALSE, 0, 0)
             ELSE IndexCount(FALSE, count,
                             3 + (count + 1) * offSize + (dataEnd - 1))

\* getCFFIndexData: the first item of the INDEX at offset, or nil.
IndexData(panic, nil, data, size) ==
    [panic |-> panic, nil |-> nil, data |-> data, size |-> size]
GetCFFIndexData(data, offset) ==
    LET ic == GetCFFIndexCount(data, offset)
        offSize == At(data, offset + 2)
        off0 == ReadCFFOffset(data, offset + 3, offSize)
        off1 == ReadCFFOffset(data, offset + 3 + offSize, offSize)
        start == offset + 3 + (ic.count + 1) * offSize + (off0 - 1)
        length == off1 - off0
        none == IndexData(FALSE, TRUE, <<>>, ic.size)
    IN  IF ic.panic THEN IndexData(TRUE, TRUE, <<>>, 0)
        ELSE IF ic.count = 0 THEN none
        ELSE IF offset + 3 > Len(data) THEN none
        ELSE IF offset + 3 + offSize > Len(data) THEN none
        ELSE IF offset + 3 + offSize * 2 > Len(data) THEN none
        ELSE IF start < 0 \/ length < 0 \/ start + length > Len(data)
        THEN none
        ELSE IndexData(FALSE, FALSE, Slice(data, start, start + length),
                       ic.size)

\* The characters of a number, one string each.
DigitChars == <<"0", "1", "2", "3", "4", "5", "6", "7", "8", "9">>
IsDigit(c) == \E d \in 1..10 : DigitChars[d] = c
DigitValue(c) == (CHOOSE d \in 1..10 : DigitChars[d] = c) - 1

\* What parseCFFReal writes for one nibble.
NibbleText(n) ==
    IF n <= 9 THEN <<DigitChars[n + 1]>>
    ELSE IF n = 10 THEN <<".">>
    ELSE IF n = 11 THEN <<"E">>
    ELSE IF n = 12 THEN <<"E", "-">>
    ELSE IF n = 14 THEN <<"-">>
    ELSE <<>>

\* parseCFFReal: the text of the real number and the bytes it takes.
RECURSIVE ParseCFFRealFrom(_, _, _)
ParseCFFRealFrom(data, i, s) ==
    IF i >= Len(data) THEN [s |-> s, n |-> i]
    ELSE LET hi == At(data, i) \div 16
             lo == At(data, i) % 16
         IN  IF hi = 15 THEN [s |-> s, n |-> i + 1]
             ELSE IF lo = 15 THEN [s |-> s \o NibbleText(hi), n |-> i + 1]
             ELSE ParseCFFRealFrom(data, i + 1,
                      s \o NibbleText(hi) \o NibbleText(lo))
ParseCFFReal(data) == ParseCFFRealFrom(data, 0, <<>>)

\* The number a sequence of digits writes.
RECURSIVE DigitsValue(_)
DigitsValue(s) ==
    IF s = <<>> THEN 0
    ELSE DigitsValue(SubSeq(s, 1, Len(s) - 1)) * 10 + DigitValue(s[Len(s)])

\* strconv.ParseFloat of the text parseCFFReal makes: an optional sign,
\* digits with at most one point, and an optional exponent.
ParseRealText(s) ==
    LET neg == s # <<>> /\ s[1] = "-"
        body == IF neg THEN Tail(s) ELSE s
        es == {k \in 1..Len(body) : body[k] = "E"}
        posE == IF es = {} THEN Len(body) + 1
                ELSE CHOOSE k \in es : \A j \in es : k <= j
        mant == SubSeq(body, 1, posE - 1)
        expo == SubSeq(body, posE + 1, Len(body))
        negExp == expo # <<>> /\ expo[1] = "-"
        expDigits == IF negExp THEN Tail(expo) ELSE expo
        points == {k \in 1..Len(mant) : mant[k] = "."}
        digits == SelectSeq(mant, IsDigit)
        frac == IF points = {} THEN 0
                ELSE Len(mant) - (CHOOSE k \in points : TRUE)
        x == IF negExp THEN 0 - DigitsValue(expDigits)
             ELSE DigitsValue(expDigits)
        ok == /\ \A k \in 1..Len(mant) : IsDigit(mant[k]) \/ mant[k] = "."
              /\ Cardinality(points) <= 1
              /\ digits # <<>>
              /\ posE <= Len(body) =>
                    /\ expDigits # <<>>
                    /\ \A k \in 1..Len(expDigits) : IsDigit(expDigits[k])
    IN  IF ok
        THEN [ok |-> TRUE,
              v |-> Dec((IF neg THEN -1 ELSE 1) * DigitsValue(digits),
                        x - frac)]
        ELSE [ok |-> FALSE, v |-> DecInt(0)]

\* A DICT with the operands of one more operator.
NoDict == [op \in {} |-> <<>>]
WithOp(dict, op, operands) ==
    [o \in DOMAIN dict \cup {op} |-> IF o = op THEN operands ELSE dict[o]]

\* parseCFFDict from the byte at i on.
RECURSIVE ParseCFFDictFrom(_, _, _, _)
ParseCFFDictFrom(data, i, operands, dict) ==
    IF i >= Len(data) THEN dict
    ELSE LET b == At(data, i)
             j == i + 1
             real == ParseCFFReal(Slice(data, j, Len(data)))
             f == ParseRealText(real.s)
         IN  IF b <= 27
             THEN IF b = 12
                  THEN IF j >= Len(data) THEN dict
                       ELSE ParseCFFDictFrom(data, j + 1, <<>>,
                                WithOp(dict, 1200 + At(data, j), operands))
                  ELSE ParseCFFDictFrom(data, j, <<>>,
                                        WithOp(dict, b, operands))
             ELSE IF b = 28
             THEN IF j + 1 < Len(data)
                  THEN ParseCFFDictFrom(data, j + 2,
                           Append(operands,
                                  DecInt(Int16(Uint16At(data, j)))), dict)
                  ELSE ParseCFFDictFrom(data, j, operands, dict)
             ELSE IF b = 29
             THEN IF j + 3 < Len(data)
                  THEN ParseCFFDictFrom(data, j + 4,
                           Append(operands, DecInt(Int32At(data, j))), dict)
                  ELSE ParseCFFDictFrom(data, j, operands, dict)
             ELSE IF b = 30
             THEN ParseCFFDictFrom(data, j + real.n,
                      IF f.ok THEN Append(operands, f.v) ELSE operands, dict)
             ELSE IF b >= 32 /\ b <= 246
             THEN ParseCFFDictFrom(data, j, Append(operands, DecInt(b - 139)),
                                   dict)
             ELSE IF b >= 247 /\ b <= 250
             THEN IF j < Len(data)
                  THEN ParseCFFDictFrom(data, j + 1,
                           Append(operands,
                                  DecInt((b - 247) * 256 + At(data, j) + 108)),
                           dict)
                  ELSE ParseCFFDictFrom(data, j, operands, dict)
             ELSE IF b >= 251 /\ b <= 254
             THEN IF j < Len(data)
                  THEN ParseCFFDictFrom(data, j + 1,
                           Append(operands,
                                  DecInt(0 - (b - 251) * 256 - At(data, j)
                                         - 108)),
                           dict)
                  ELSE ParseCFFDictFrom(data, j, operands, dict)
             ELSE ParseCFFDictFrom(data, j, operands, dict)
ParseCFFDict(data) == ParseCFFDictFrom(data, 0, <<>>, NoDict)

\* The decimal digits of n > 0.
RECURSIVE DigitsOf(_)
DigitsOf(n) ==
    IF n < 10 THEN <<DigitChars[n + 1]>>
    ELSE Append(DigitsOf(n \div 10), DigitChars[(n % 10) + 1])

\* fmt.Sprintf("%g", val) of a val that is not an integer: the shortest
\* digits, as d.ddde-xx when the decimal exponent is below -4 or at least 6.
FormatG(val) ==
    LET digits == DigitsOf(IF val.m < 0 THEN 0 - val.m ELSE val.m)
        nd == Len(digits)
        x == nd + val.e - 1
        sign == IF val.m < 0 THEN <<"-">> ELSE <<>>
        ax == IF x < 0 THEN 0 - x ELSE x
        exponent == <<"e", IF x < 0 THEN "-" ELSE "+">>
                    \o (IF ax < 10 THEN <<"0">> ELSE <<>>) \o DigitsOf(ax)
    IN  IF x < -4 \/ x >= 6
        THEN sign \o <<digits[1]>>
             \o (IF nd > 1 THEN <<".">> \o Tail(digits) ELSE <<>>)
             \o exponent
        ELSE IF x < 0
        THEN sign \o <<"0", ".">> \o [k \in 1..(0 - x - 1) |-> "0"] \o digits
        ELSE sign \o SubSeq(digits, 1, x + 1) \o <<".">>
             \o SubSeq(digits, x + 2, nd)

\* The nibble encodeNumberCFF writes for one character.
NibbleOf(c) ==
    IF IsDigit(c) THEN DigitValue(c)
    ELSE IF c = "." THEN 10
    ELSE IF c \in {"E", "e"} THEN 11
    ELSE IF c = "-" THEN 14
    ELSE 0

\* encodeNumberCFF: the bytes of one operand; and the one that writes every
\* integer beyond -1131..1131 as an int16.
EncodeNumberCFFShort(val) ==
    LET iv == val.m
    IN  IF iv >= -107 /\ iv <= 107 THEN <<iv + 139>>
        ELSE IF iv >= 108 /\ iv <= 1131
        THEN <<((iv - 108) \div 256) + 247, (iv - 108) % 256>>
        ELSE IF iv >= -1131 /\ iv <= -108
        THEN <<((0 - iv - 108) \div 256) + 251, (0 - iv - 108) % 256>>
        ELSE <<28>> \o U16(iv % 65536)
EncodeNumberCFF(val) ==
    LET iv == val.m
        s == FormatG(val)
        n1 == [k \in 1..Len(s) |-> NibbleOf(s[k])] \o <<15>>
        nibbles == IF Len(n1) % 2 # 0 THEN n1 \o <<15>> ELSE n1
    IN  IF val.e = 0
        THEN IF iv >= -107 /\ iv <= 107 THEN <<iv + 139>>
             ELSE IF iv >= 108 /\ iv <= 1131
             THEN <<((iv - 108) \div 256) + 247, (iv - 108) % 256>>
             ELSE IF iv >= -1131 /\ iv <= -108
             THEN <<((0 - iv - 108) \div 256) + 251, (0 - iv - 108) % 256>>
             ELSE IF iv >= -32768 /\ iv <= 32767 THEN <<28>> \o U16(iv % 65536)
             ELSE <<29>> \o U32(iv)
        ELSE <<30>> \o [k \in 1..(Len(nibbles) \div 2) |->
                           nibbles[2 * k - 1] * 16 + nibbles[2 * k]]

\* encodeCFFDict: the operators in ascending order, each after its operands.
RECURSIVE EncodeOperands(_, _)
EncodeOperands(vals, k) ==
    IF k > Len(vals) THEN <<>>
    ELSE EncodeNumberCFF(vals[k]) \o EncodeOperands(vals, k + 1)
RECURSIVE EncodeCFFDictFrom(_, _)
EncodeCFFDictFrom(dict, keys) ==
    IF keys = {} THEN <<>>
    ELSE LET op == CHOOSE k \in keys : \A j \in keys : k <= j
         IN  EncodeOperands(dict[op], 1)
             \o (IF op >= 1200 THEN <<12, (op - 1200) % 256>>
                 ELSE <<op % 256>>)
             \o EncodeCFFDictFrom(dict, keys \ {op})
EncodeCFFDict(dict) == EncodeCFFDictFrom(dict, DOMAIN dict)

\* putOffset: the low size bytes of val, big-endian.
PutOffset(val, size) == Slice(U32(val), 4 - size, 4)

\* encodeCFFIndex: count, offSize, the offsets and the items.
RECURSIVE ItemOffsets(_, _, _, _)
ItemOffsets(items, k, offset, offSize) ==
    IF k > Len(items) THEN <<>>
    ELSE PutOffset(offset + Len(items[k]), offSize)
         \o ItemOffsets(items, k + 1, offset + Len(items[k]), offSize)
RECURSIVE Concat(_, _)
Concat(items, k) ==
    IF k > Len(items) THEN <<>> ELSE items[k] \o Concat(items, k + 1)
EncodeCFFIndex(items) ==
    LET count == Len(items)
        totalSize == Len(Concat(items, 1))
        offSize == IF totalSize + 1 > 16777215 THEN 4
                   ELSE IF totalSize + 1 > 65535 THEN 3
                   ELSE IF totalSize + 1 > 255 THEN 2
                   ELSE 1
    IN  IF count = 0 THEN U16(0)
        ELSE U16(count) \o <<offSize>> \o PutOffset(1, offSize)
             \o ItemOffsets(items, 1, 1, offSize) \o Concat(items, 1)

\* multiplyAffine, and the matrix a left as it is.
KeepAffine(a, b) == a
MultiplyAffine(a, b) ==
    <<DecAdd(DecMul(a[1], b[1]), DecMul(a[3], b[2])),
      DecAdd(DecMul(a[2], b[1]), DecMul(a[4], b[2])),
      DecAdd(DecMul(a[1], b[3]), DecMul(a[3], b[4])),
      DecAdd(DecMul(a[2], b[3]), DecMul(a[4], b[4])),
      DecAdd(DecAdd(DecMul(a[1], b[5]), DecMul(a[3], b[6])), a[5]),
      DecAdd(DecAdd(DecMul(a[2], b[5]), DecMul(a[4], b[6])), a[6])>>

\* What a step of the CFF wrap returns: a panic, an error, or bytes.
CffResult(panic, err, data) == [panic |-> panic, err |-> err, data |-> data]
CffPanic == CffResult(TRUE, FALSE, <<>>)
CffError == CffResult(FALSE, TRUE, <<>>)

\* A DICT without some operators.
WithoutOps(dict, ops) == [o \in DOMAIN dict \ ops |-> dict[o]]
\* The operands of op, none when the DICT lacks it.
Operands(dict, op) == IF op \in DOMAIN dict THEN dict[op] ELSE <<>>

\* The FontMatrix sanitizeCFF gives a Top DICT that has none.
DefaultFontMatrix ==
    <<Dec(1, -3), DecInt(0), DecInt(0), Dec(1, -3), DecInt(0), DecInt(0)>>

\* sanitizeCFF, the end: the font laid out again as header, Name INDEX, Top
\* DICT INDEX, String INDEX, Global Subr INDEX, CharStrings, Private DICT
\* and local Subrs.  The Top DICT is encoded with the CharStrings offset
\* that a dummy Top DICT predicts, and once more when its size differs.
TopDictAt(topDict, privateLen, charStringsLen, charStringsPos) ==
    EncodeCFFIndex(<<EncodeCFFDict(
        WithOp(WithOp(topDict, 17, <<DecInt(charStringsPos)>>),
               18, <<DecInt(privateLen),
                     DecInt(charStringsPos + charStringsLen)>>))>>)
Rebuilt(header, nameIndexData, topIndex, rest, dataStart, again) ==
    IF Len(header) + Len(nameIndexData) + Len(topIndex) + Len(rest)
       # dataStart
    THEN header \o nameIndexData \o again \o rest
    ELSE header \o nameIndexData \o topIndex \o rest
SanitizeLayout(header, nameIndexData, rest, topDict, privateLen, charStringsLen, dataStart) ==
    LET first == TopDictAt(topDict, privateLen, charStringsLen, dataStart)
        currentSize == Len(header) + Len(nameIndexData) + Len(first)
                       + Len(rest)
    IN  Rebuilt(header, nameIndexData, first, rest, dataStart,
                TopDictAt(topDict, privateLen, charStringsLen,
                          dataStart + (currentSize - dataStart)))

\* sanitizeCFF, the tail of the CID part: CharStrings, Private DICT and
\* local Subrs are appended to the rebuilt front.
SanitizeTail(data, hdrSize, nameIndexData, rest, topDict, privSize, privDictData, finalPrivData, localSubrData, charStringsData) ==
    CffResult(FALSE, FALSE,
        SanitizeLayout(Slice(data, 0, hdrSize), nameIndexData, rest, topDict,
            IF Len(privDictData) > 0 THEN Len(finalPrivData) ELSE privSize,
            Len(charStringsData),
            hdrSize + Len(nameIndexData)
            + (2 + 1 + 8
               + Len(EncodeCFFDict(WithOp(topDict, 17, <<DecInt(0)>>))))
            + Len(rest))
        \o charStringsData \o finalPrivData \o localSubrData)

\* sanitizeCFF, the CharStrings of the CID part: the slice
\* data[charStringsOff : charStringsOff+size] panics when the INDEX runs
\* past the data.
SanitizeCharStrings(data, hdrSize, nameIndexData, rest, topDict1, privSize, privDictData, pDict, localSubrData, charStringsOff, cs) ==
    IF cs.panic \/ charStringsOff + cs.size > Len(data) THEN CffPanic
    ELSE SanitizeTail(data, hdrSize, nameIndexData, rest,
             WithOp(WithoutOps(topDict1, {1230, 1236, 1237, 1234, 15, 16}),
                    18, <<DecInt(privSize), DecInt(0)>>),
             privSize, privDictData,
             IF Len(privDictData) > 0
             THEN EncodeCFFDict(
                      IF 19 \in DOMAIN pDict \/ Len(localSubrData) > 0
                      THEN WithOp(pDict, 19, <<DecInt(privSize)>>)
                      ELSE pDict)
             ELSE <<>>,
             localSubrData,
             Slice(data, charStringsOff, charStringsOff + cs.size))

\* sanitizeCFF, the local Subrs of the CID part.
SanitizeSubrs(data, hdrSize, nameIndexData, rest, topDict1, privSize, privDictData, pDict, subrsOffRel, subrsAbs, sub) ==
    IF Len(Operands(topDict1, 17)) = 0 THEN CffError
    ELSE SanitizeCharStrings(data, hdrSize, nameIndexData, rest, topDict1,
             privSize, privDictData, pDict,
             IF subrsOffRel > 0 /\ subrsAbs < Len(data)
                /\ subrsAbs + sub.size <= Len(data)
             THEN Slice(data, subrsAbs, subrsAbs + sub.size)
             ELSE <<>>,
             DecTrunc(topDict1[17][1]),
             GetCFFIndexCount(data, DecTrunc(topDict1[17][1])))

\* sanitizeCFF, the Private DICT of the CID part.
SanitizePrivDict(data, hdrSize, nameIndexData, rest, topDict1, privSize, privOff, privDictData, pDict) ==
    LET subrsOffRel == IF Len(privDictData) > 0
                          /\ Len(Operands(pDict, 19)) > 0
                       THEN DecTrunc(pDict[19][1]) ELSE 0
    IN  SanitizeSubrs(data, hdrSize, nameIndexData, rest, topDict1, privSize,
                      privDictData, pDict, subrsOffRel, privOff + subrsOffRel,
                      GetCFFIndexCount(data, privOff + subrsOffRel))

\* sanitizeCFF, the Private operands of the CID part.  The slice
\* data[privOff : privOff+privSize] panics for a negative offset.
SanitizePrivate(data, hdrSize, nameIndexData, rest, topDict1, privSize, privOff) ==
    LET hasPriv == privSize > 0 /\ privOff < Len(data)
                   /\ privOff + privSize <= Len(data)
        privDictData == IF hasPriv
                        THEN Slice(data, privOff, privOff + privSize)
                        ELSE <<>>
    IN  IF hasPriv /\ privOff < 0 THEN CffPanic
        ELSE SanitizePrivDict(data, hdrSize, nameIndexData, rest, topDict1,
                              privSize, privOff, privDictData,
                              ParseCFFDict(privDictData))

\* sanitizeCFF, the Font DICT of the CID part: its FontMatrix is folded into
\* that of the Top DICT and its Private operands are taken.
SanitizeFontDict(data, hdrSize, nameIndexData, rest, topDict0, fontDict) ==
    LET topMat == IF Len(Operands(topDict0, 1207)) = 6 THEN topDict0[1207]
                  ELSE DefaultFontMatrix
        privVals == IF Len(Operands(fontDict, 18)) = 2 THEN fontDict[18]
                    ELSE <<DecInt(0), DecInt(0)>>
    IN  SanitizePrivate(data, hdrSize, nameIndexData, rest,
            IF Len(Operands(fontDict, 1207)) = 6
            THEN WithOp(topDict0, 1207,
                        MultiplyAffine(topMat, fontDict[1207]))
            ELSE topDict0,
            DecTrunc(privVals[1]), DecTrunc(privVals[2]))

\* sanitizeCFF for a CID font: the Font DICT of the one FDArray entry is
\* folded into the Top DICT and the font is laid out again.  rest is the
\* String INDEX followed by the Global Subr INDEX.
SanitizeFDArray(data, hdrSize, nameIndexData, rest, topDict0, fdArrOff, fd) ==
    IF fdArrOff >= Len(data) THEN CffError
    ELSE IF fd.panic THEN CffPanic
    ELSE IF fd.count # 1 THEN CffError
    ELSE SanitizeFontDict(data, hdrSize, nameIndexData, rest, topDict0,
             ParseCFFDict(GetCFFIndexData(data, fdArrOff).data))
SanitizeCID(data, hdrSize, nameIndexData, rest, topDict0) ==
    IF Len(Operands(topDict0, 1236)) = 0 THEN CffError
    ELSE SanitizeFDArray(data, hdrSize, nameIndexData, rest, topDict0,
             DecTrunc(topDict0[1236][1]),
             GetCFFIndexCount(data, DecTrunc(topDict0[1236][1])))

\* sanitizeCFF: a font that is not CID-keyed is returned as it came.  The
\* four INDEX slices data[offset : offset+size] panic when the size the
\* INDEX declares runs past the data.
SanitizeTopDict(data, hdrSize, o1, o2, o3, glbSize, topDict) ==
    IF o3 + glbSize > Len(data) THEN CffPanic
    ELSE IF 1230 \notin DOMAIN topDict THEN CffResult(FALSE, FALSE, data)
    ELSE SanitizeCID(data, hdrSize, Slice(data, hdrSize, o1),
                     Slice(data, o2, o3 + glbSize), topDict)
SanitizeStrings(data, hdrSize, o1, o2, o3) ==
    IF o3 > Len(data) THEN CffPanic
    ELSE IF o3 >= Len(data) THEN CffError
    ELSE SanitizeTopDict(data, hdrSize, o1, o2, o3,
                         GetCFFIndexCount(data, o3).size,
                         ParseCFFDict(GetCFFIndexData(data, o1).data))
SanitizeTop(data, hdrSize, o1, top) ==
    IF top.count # 1 THEN CffError
    ELSE IF o1 + top.size >= Len(data) THEN CffError
    ELSE SanitizeStrings(data, hdrSize, o1, o1 + top.size,
             o1 + top.size + GetCFFIndexCount(data, o1 + top.size).size)
SanitizeName(data, hdrSize, name) ==
    IF name.count # 1 THEN CffError
    ELSE IF hdrSize + name.size > Len(data) THEN CffPanic
    ELSE IF hdrSize + name.size >= Len(data) THEN CffError
    ELSE SanitizeTop(data, hdrSize, hdrSize + name.size,
                     GetCFFIndexCount(data, hdrSize + name.size))
SanitizeCFF(data) ==
    IF Len(data) < 4 THEN CffError
    ELSE IF At(data, 2) >= Len(data) THEN CffError
    ELSE SanitizeName(data, At(data, 2),
                      GetCFFIndexCount(data, At(data, 2)))

\* parseCFFAndCountGlyphs: the count of the CharStrings INDEX.
GlyphCount(err, count) == [err |-> err, count |-> count]
CountFromTopDict(data, nil, dict) ==
    IF ~nil /\ Len(Operands(dict, 17)) > 0
       /\ DecTrunc(dict[17][1]) > 0 /\ DecTrunc(dict[17][1]) < Len(data)
    THEN GlyphCount(FALSE,
                    GetCFFIndexCount(data, DecTrunc(dict[17][1])).count)
    ELSE GlyphCount(TRUE, 0)
CountFromTop(data, o1, top, topDictData) ==
    IF o1 >= Len(data) THEN GlyphCount(TRUE, 0)
    ELSE IF top.count # 1 THEN GlyphCount(TRUE, 0)
    ELSE CountFromTopDict(data, topDictData.nil,
                          ParseCFFDict(topDictData.data))
CountFromName(data, hdrSize, name) ==
    IF name.count # 1 THEN GlyphCount(TRUE, 0)
    ELSE CountFromTop(data, hdrSize + name.size,
                      GetCFFIndexCount(data, hdrSize + name.size),
                      GetCFFIndexData(data, hdrSize + name.size))
ParseCFFAndCountGlyphs(data) ==
    IF Len(data) < 4 THEN GlyphCount(TRUE, 0)
    ELSE IF At(data, 2) >= Len(data) THEN GlyphCount(TRUE, 0)
    ELSE CountFromName(data, At(data, 2),
                       GetCFFIndexCount(data, At(data, 2)))
\* The glyph names of the switch of getUnicodeFromName, each with its rune.
GlyphNameRunes ==
    {<<<<115, 112, 97, 99, 101>>, 32>>, <<<<101, 120, 99, 108, 97, 109>>, 33>>,
     <<<<113, 117, 111, 116, 101, 100, 98, 108>>, 34>>,
     <<<<110, 117, 109, 98, 101, 114, 115, 105, 103, 110>>, 35>>,
     <<<<100, 111, 108, 108, 97, 114>>, 36>>,
     <<<<112, 101, 114, 99, 101, 110, 116>>, 37>>,
     <<<<97, 109, 112, 101, 114, 115, 97, 110, 100>>, 38>>,
     <<<<113, 117, 111, 116, 101, 115, 105, 110, 103, 108, 101>>, 39>>,
     <<<<112, 97, 114, 101, 110, 108, 101, 102, 116>>, 40>>,
     <<<<112, 97, 114, 101, 110, 114, 105, 103, 104, 116>>, 41>>,
     <<<<97, 115, 116, 101, 114, 105, 115, 107>>, 42>>,
     <<<<112, 108, 117, 115>>, 43>>, <<<<99, 111, 109, 109, 97>>, 44>>,
     <<<<104, 121, 112, 104, 101, 110>>, 45>>,
     <<<<112, 101, 114, 105, 111, 100>>, 46>>,
     <<<<115, 108, 97, 115, 104>>, 47>>, <<<<99, 111, 108, 111, 110>>, 58>>,
     <<<<115, 101, 109, 105, 99, 111, 108, 111, 110>>, 59>>,
     <<<<108, 101, 115, 115>>, 60>>, <<<<101, 113, 117, 97, 108>>, 61>>,
     <<<<103, 114, 101, 97, 116, 101, 114>>, 62>>,
     <<<<113, 117, 101, 115, 116, 105, 111, 110>>, 63>>, <<<<97, 116>>, 64>>,
     <<<<98, 114, 97, 99, 107, 101, 116, 108, 101, 102, 116>>, 91>>,
     <<<<98, 97, 99, 107, 115, 108, 97, 115, 104>>, 92>>,
     <<<<98, 114, 97, 99, 107, 101, 116, 114, 105, 103, 104, 116>>, 93>>,
     <<<<97, 115, 99, 105, 105, 99, 105, 114, 99, 117, 109>>, 94>>,
     <<<<117, 110, 100, 101, 114, 115, 99, 111, 114, 101>>, 95>>,
     <<<<103, 114, 97, 118, 101>>, 96>>,
     <<<<98, 114, 97, 99, 101, 108, 101, 102, 116>>, 123>>,
     <<<<98, 97, 114>>, 124>>,
     <<<<98, 114, 97, 99, 101, 114, 105, 103, 104, 116>>, 125>>,
     <<<<97, 115, 99, 105, 105, 116, 105, 108, 100, 101>>, 126>>}

\* cffStandardStrings: the name of SID k is entry k + 1.
CffStandardStrings ==
    <<<<46, 110, 111, 116, 100, 101, 102>>, <<115, 112, 97, 99, 101>>,
      <<101, 120, 99, 108, 97, 109>>,
      <<113, 117, 111, 116, 101, 100, 98, 108>>,
      <<110, 117, 109, 98, 101, 114, 115, 105, 103, 110>>,
      <<100, 111, 108, 108, 97, 114>>, <<112, 101, 114, 99, 101, 110, 116>>,
      <<97, 109, 112, 101, 114, 115, 97, 110, 100>>,
      <<113, 117, 111, 116, 101, 114, 105, 103, 104, 116>>,
      <<112, 97, 114, 101, 110, 108, 101, 102, 116>>,
      <<112, 97, 114, 101, 110, 114, 105, 103, 104, 116>>,
      <<97, 115, 116, 101, 114, 105, 115, 107>>, <<112, 108, 117, 115>>,
      <<99, 111, 109, 109, 97>>, <<104, 121, 112, 104, 101, 110>>,
      <<112, 101, 114, 105, 111, 100>>, <<115, 108, 97, 115, 104>>,
      <<122, 101, 114, 111>>, <<111, 110, 101>>, <<116, 119, 111>>,
      <<116, 104, 114, 101, 101>>, <<102, 111, 117, 114>>,
      <<102, 105, 118, 101>>, <<115, 105, 120>>, <<115, 101, 118, 101, 110>>,
      <<101, 105, 103, 104, 116>>, <<110, 105, 110, 101>>,
      <<99, 111, 108, 111, 110>>,
      <<115, 101, 109, 105, 99, 111, 108, 111, 110>>, <<108, 101, 115, 115>>,
      <<101, 113, 117, 97, 108>>, <<103, 114, 101, 97, 116, 101, 114>>,
      <<113, 117, 101, 115, 116, 105, 111, 110>>, <<97, 116>>, <<65>>, <<66>>,
      <<67>>, <<68>>, <<69>>, <<70>>, <<71>>, <<72>>, <<73>>, <<74>>, <<75>>,
      <<76>>, <<77>>, <<78>>, <<79>>, <<80>>, <<81>>, <<82>>, <<83>>, <<84>>,
      <<85>>, <<86>>, <<87>>, <<88>>, <<89>>, <<90>>,
      <<98, 114, 97, 99, 107, 101, 116, 108, 101, 102, 116>>,
      <<98, 97, 99, 107, 115, 108, 97, 115, 104>>,
      <<98, 114, 97, 99, 107, 101, 116, 114, 105, 103, 104, 116>>,
      <<97, 115, 99, 105, 105, 99, 105, 114, 99, 117, 109>>,
      <<117, 110, 100, 101, 114, 115, 99, 111, 114, 101>>,
      <<113, 117, 111, 116, 101, 108, 101, 102, 116>>, <<97>>, <<98>>, <<99>>,
      <<100>>, <<101>>, <<102>>, <<103>>, <<104>>, <<105>>, <<106>>, <<107>>,
      <<108>>, <<109>>, <<110>>, <<111>>, <<112>>, <<113>>, <<114>>, <<115>>,
      <<116>>, <<117>>, <<118>>, <<119>>, <<120>>, <<121>>, <<122>>,
      <<98, 114, 97, 99, 101, 108, 101, 102, 116>>, <<98, 97, 114>>,
      <<98, 114, 97, 99, 101, 114, 105, 103, 104, 116>>,
      <<97, 115, 99, 105, 105, 116, 105, 108, 100, 101>>,
      <<101, 120, 99, 108, 97, 109, 100, 111, 119, 110>>,
      <<99, 101, 110, 116>>, <<115, 116, 101, 114, 108, 105, 110, 103>>,
      <<102, 114, 97, 99, 116, 105, 111, 110>>, <<121, 101, 110>>,
      <<102, 108, 111, 114, 105, 110>>, <<115, 101, 99, 116, 105, 111, 110>>,
      <<99, 117, 114, 114, 101, 110, 99, 121>>,
      <<113, 117, 111, 116, 101, 115, 105, 110, 103, 108, 101>>,
      <<113, 117, 111, 116, 101, 100, 98, 108, 108, 101, 102, 116>>,
      <<113, 117, 111, 116, 101, 100, 98, 108, 114, 105, 103, 104, 116>>,
      <<103, 117, 105, 108, 108, 101, 109, 111, 116, 108, 101, 102, 116>>,
      <<103, 117, 105, 108, 108, 101, 109, 111, 116, 114, 105, 103, 104, 116>>,
      <<100, 97, 103, 103, 101, 114>>,
      <<100, 97, 103, 103, 101, 114, 100, 98, 108>>, <<102, 105>>,
      <<102, 108>>, <<101, 110, 100, 97, 115, 104>>,
      <<101, 109, 100, 97, 115, 104>>,
      <<112, 97, 114, 97, 103, 114, 97, 112, 104>>,
      <<98, 117, 108, 108, 101, 116>>,
      <<113, 117, 111, 116, 101, 115, 105, 110, 103, 108, 98, 97, 115, 101>>,
      <<113, 117, 111, 116, 101, 100, 98, 108, 98, 97, 115, 101>>,
      <<115, 101, 99, 111, 110, 100>>,
      <<99, 105, 114, 99, 117, 109, 102, 108, 101, 120>>,
      <<98, 114, 101, 118, 101>>, <<100, 111, 116, 97, 99, 99, 101, 110, 116>>,
      <<100, 105, 101, 114, 101, 115, 105, 115>>, <<103, 114, 97, 118, 101>>,
      <<114, 105, 110, 103>>, <<99, 101, 100, 105, 108, 108, 97>>,
      <<104, 117, 110, 103, 97, 114, 117, 109, 108, 97, 117, 116>>,
      <<111, 103, 111, 110, 101, 107>>, <<99, 97, 114, 111, 110>>,
      <<101, 109, 115, 112, 97, 99, 101>>, <<65, 69>>,
      <<111, 114, 100, 102, 101, 109, 105, 110, 105, 110, 101>>,
      <<76, 115, 108, 97, 115, 104>>, <<79, 115, 108, 97, 115, 104>>,
      <<79, 69>>, <<111, 114, 100, 109, 97, 115, 99, 117, 108, 105, 110, 101>>,
      <<97, 101>>, <<100, 111, 116, 108, 101, 115, 115, 105>>,
      <<108, 115, 108, 97, 115, 104>>, <<111, 115, 108, 97, 115, 104>>,
      <<111, 101>>, <<103, 101, 114, 109, 97, 110, 100, 98, 108, 115>>,
      <<111, 110, 101, 115, 117, 112, 101, 114, 105, 111, 114>>,
      <<108, 111, 103, 105, 99, 97, 108, 110, 111, 116>>, <<109, 117>>,
      <<116, 114, 97, 100, 101, 109, 97, 114, 107>>, <<69, 116, 104>>,
      <<111, 110, 101, 104, 97, 108, 102>>,
      <<112, 108, 117, 115, 109, 105, 110, 117, 115>>,
      <<84, 104, 111, 114, 110>>,
      <<111, 110, 101, 113, 117, 97, 114, 116, 101, 114>>,
      <<100, 105, 118, 105, 100, 101>>,
      <<98, 114, 111, 107, 101, 110, 98, 97, 114>>,
      <<100, 101, 103, 114, 101, 101>>, <<116, 104, 111, 114, 110>>,
      <<116, 104, 114, 101, 101, 113, 117, 97, 114, 116, 101, 114, 115>>,
      <<116, 119, 111, 115, 117, 112, 101, 114, 105, 111, 114>>,
      <<114, 101, 103, 105, 115, 116, 101, 114, 101, 100>>,
      <<109, 105, 110, 117, 115>>, <<101, 116, 104>>,
      <<109, 117, 108, 116, 105, 112, 108, 121>>,
      <<116, 104, 114, 101, 101, 115, 117, 112, 101, 114, 105, 111, 114>>,
      <<99, 111, 112, 121, 114, 105, 103, 104, 116>>,
      <<65, 97, 99, 117, 116, 101>>,
      <<65, 99, 105, 114, 99, 117, 109, 102, 108, 101, 120>>,
      <<65, 100, 105, 101, 114, 101, 115, 105, 115>>,
      <<65, 103, 114, 97, 118, 101>>, <<65, 114, 105, 110, 103>>,
      <<65, 116, 105, 108, 100, 101>>, <<67, 99, 101, 100, 105, 108, 108, 97>>,
      <<69, 97, 99, 117, 116, 101>>,
      <<69, 99, 105, 114, 99, 117, 109, 102, 108, 101, 120>>,
      <<69, 100, 105, 101, 114, 101, 115, 105, 115>>,
      <<69, 103, 114, 97, 118, 101>>, <<73, 97, 99, 117, 116, 101>>,
      <<73, 99, 105, 114, 99, 117, 109, 102, 108, 101, 120>>,
      <<73, 100, 105, 101, 114, 101, 115, 105, 115>>,
      <<73, 103, 114, 97, 118, 101>>, <<78, 116, 105, 108, 100, 101>>,
      <<79, 97, 99, 117, 116, 101>>,
      <<79, 99, 105, 114, 99, 117, 109, 102, 108, 101, 120>>,
      <<79, 100, 105, 101, 114, 101, 115, 105, 115>>,
      <<79, 103, 114, 97, 118, 101>>, <<79, 116, 105, 108, 100, 101>>,
      <<83, 99, 97, 114, 111, 110>>, <<85, 97, 99, 117, 116, 101>>,
      <<85, 99, 105, 114, 99, 117, 109, 102, 108, 101, 120>>,
      <<85, 100, 105, 101, 114, 101, 115, 105, 115>>,
      <<85, 103, 114, 97, 118, 101>>, <<89, 97, 99, 117, 116, 101>>,
      <<89, 100, 105, 101, 114, 101, 115, 105, 115>>,
      <<90, 99, 97, 114, 111, 110>>, <<97, 97, 99, 117, 116, 101>>,
      <<97, 99, 105, 114, 99, 117, 109, 102, 108, 101, 120>>,
      <<97, 100, 105, 101, 114, 101, 115, 105, 115>>,
      <<97, 103, 114, 97, 118, 101>>, <<97, 114, 105, 110, 103>>,
      <<97, 116, 105, 108, 100, 101>>, <<99, 99, 101, 100, 105, 108, 108, 97>>,
      <<101, 97, 99, 117, 116, 101>>,
      <<101, 99, 105, 114, 99, 117, 109, 102, 108, 101, 120>>,
      <<101, 100, 105, 101, 114, 101, 115, 105, 115>>,
      <<101, 103, 114, 97, 118, 101>>, <<105, 97, 99, 117, 116, 101>>,
      <<105, 99, 105, 114, 99, 117, 109, 102, 108, 101, 120>>,
      <<105, 100, 105, 101, 114, 101, 115, 105, 115>>,
      <<105, 103, 114, 97, 118, 101>>, <<110, 116, 105, 108, 100, 101>>,
      <<111, 97, 99, 117, 116, 101>>,
      <<111, 99, 105, 114, 99, 117, 109, 102, 108, 101, 120>>,
      <<111, 100, 105, 101, 114, 101, 115, 105, 115>>,
      <<111, 103, 114, 97, 118, 101>>, <<111, 116, 105, 108, 100, 101>>,
      <<115, 99, 97, 114, 111, 110>>, <<117, 97, 99, 117, 116, 101>>,
      <<117, 99, 105, 114, 99, 117, 109, 102, 108, 101, 120>>,
      <<117, 100, 105, 101, 114, 101, 115, 105, 115>>,
      <<117, 103, 114, 97, 118, 101>>, <<121, 97, 99, 117, 116, 101>>,
      <<121, 100, 105, 101, 114, 101, 115, 105, 115>>,
      <<122, 99, 97, 114, 111, 110>>,
      <<101, 120, 99, 108, 97, 109, 115, 109, 97, 108, 108>>,
      <<72, 117, 110, 103, 97, 114, 117, 109, 108, 97, 117, 116, 115, 109, 97, 108, 108>>,
      <<100, 111, 108, 108, 97, 114, 111, 108, 100, 115, 116, 121, 108, 101>>,
      <<100, 111, 108, 108, 97, 114, 115, 117, 112, 101, 114, 105, 111, 114>>,
      <<97, 109, 112, 101, 114, 115, 97, 110, 100, 115, 109, 97, 108, 108>>,
      <<65, 99, 117, 116, 101, 115, 109, 97, 108, 108>>,
      <<112, 97, 114, 101, 110, 108, 101, 102, 116, 115, 117, 112, 101, 114, 105, 111, 114>>,
      <<112, 97, 114, 101, 110, 114, 105, 103, 104, 116, 115, 117, 112, 101, 114, 105, 111, 114>>,
      <<50, 100, 111, 116, 108, 101, 97, 100>>,
      <<110, 98, 115, 112, 97, 99, 101>>,
      <<49, 100, 111, 116, 108, 101, 97, 100>>,
      <<122, 101, 114, 111, 111, 108, 100, 115, 116, 121, 108, 101>>,
      <<111, 110, 101, 111, 108, 100, 115, 116, 121, 108, 101>>,
      <<116, 119, 111, 111, 108, 100, 115, 116, 121, 108, 101>>,
      <<116, 104, 114, 101, 101, 111, 108, 100, 115, 116, 121, 108, 101>>,
      <<102, 111, 117, 114, 111, 108, 100, 115, 116, 121, 108, 101>>,
      <<102, 105, 118, 101, 111, 108, 100, 115, 116, 121, 108, 101>>,
      <<115, 105, 120, 111, 108, 100, 115, 116, 121, 108, 101>>,
      <<115, 101, 118, 101, 110, 111, 108, 100, 115, 116, 121, 108, 101>>,
      <<101, 105, 103, 104, 116, 111, 108, 100, 115, 116, 121, 108, 101>>,
      <<110, 105, 110, 101, 111, 108, 100, 115, 116, 121, 108, 101>>,
      <<99, 111, 109, 109, 97, 115, 117, 112, 101, 114, 105, 111, 114>>,
      <<116, 104, 114, 101, 101, 113, 117, 97, 114, 116, 101, 114, 115, 101, 109, 100, 97, 115, 104>>,
      <<112, 101, 114, 105, 111, 100, 115, 117, 112, 101, 114, 105, 111, 114>>,
      <<113, 117, 101, 115, 116, 105, 111, 110, 115, 109, 97, 108, 108>>,
      <<97, 115, 117, 112, 101, 114, 105, 111, 114>>,
      <<98, 115, 117, 112, 101, 114, 105, 111, 114>>,
      <<99, 101, 110, 116, 115, 117, 112, 101, 114, 105, 111, 114>>,
      <<100, 115, 117, 112, 101, 114, 105, 111, 114>>,
      <<101, 115, 117, 112, 101, 114, 105, 111, 114>>,
      <<105, 115, 117, 112, 101, 114, 105, 111, 114>>,
      <<108, 115, 117, 112, 101, 114, 105, 111, 114>>,
      <<109, 115, 117, 112, 101, 114, 105, 111, 114>>,
      <<110, 115, 117, 112, 101, 114, 105, 111, 114>>,
      <<111, 115, 117, 112, 101, 114, 105, 111, 114>>,
      <<114, 115, 117, 112, 101, 114, 105, 111, 114>>,
      <<115, 115, 117, 112, 101, 114, 105, 111, 114>>,
      <<116, 115, 117, 112, 101, 114, 105, 111, 114>>, <<102, 102>>,
      <<102, 102, 105>>, <<102, 102, 108>>,
      <<112, 97, 114, 101, 110, 108, 101, 102, 116, 105, 110, 102, 101, 114, 105, 111, 114>>,
      <<112, 97, 114, 101, 110, 114, 105, 103, 104, 116, 105, 110, 102, 101, 114, 105, 111, 114>>,
      <<67, 105, 114, 99, 117, 109, 102, 108, 101, 120, 115, 109, 97, 108, 108>>,
      <<104, 121, 112, 104, 101, 110, 115, 117, 112, 101, 114, 105, 111, 114>>,
      <<71, 114, 97, 118, 101, 115, 109, 97, 108, 108>>,
      <<65, 115, 109, 97, 108, 108>>, <<66, 115, 109, 97, 108, 108>>,
      <<67, 115, 109, 97, 108, 108>>, <<68, 115, 109, 97, 108, 108>>,
      <<69, 115, 109, 97, 108, 108>>, <<70, 115, 109, 97, 108, 108>>,
      <<71, 115, 109, 97, 108, 108>>, <<72, 115, 109, 97, 108, 108>>,
      <<73, 115, 109, 97, 108, 108>>, <<74, 115, 109, 97, 108, 108>>,
      <<75, 115, 109, 97, 108, 108>>, <<76, 115, 109, 97, 108, 108>>,
      <<77, 115, 109, 97, 108, 108>>, <<78, 115, 109, 97, 108, 108>>,
      <<79, 115, 109, 97, 108, 108>>, <<80, 115, 109, 97, 108, 108>>,
      <<81, 115, 109, 97, 108, 108>>, <<82, 115, 109, 97, 108, 108>>,
      <<83, 115, 109, 97, 108, 108>>, <<84, 115, 109, 97, 108, 108>>,
      <<85, 115, 109, 97, 108, 108>>, <<86, 115, 109, 97, 108, 108>>,
      <<87, 115, 109, 97, 108, 108>>, <<88, 115, 109, 97, 108, 108>>,
      <<89, 115, 109, 97, 108, 108>>, <<90, 115, 109, 97, 108, 108>>,
      <<99, 111, 108, 111, 110, 109, 111, 110, 101, 116, 97, 114, 121>>,
      <<111, 110, 101, 102, 105, 116, 116, 101, 100>>,
      <<114, 117, 112, 105, 97, 104>>,
      <<84, 105, 108, 100, 101, 115, 109, 97, 108, 108>>,
      <<101, 120, 99, 108, 97, 109, 100, 111, 119, 110, 115, 109, 97, 108, 108>>,
      <<99, 101, 110, 116, 111, 108, 100, 115, 116, 121, 108, 101>>,
      <<76, 115, 108, 97, 115, 104, 115, 109, 97, 108, 108>>,
      <<83, 99, 97, 114, 111, 110, 115, 109, 97, 108, 108>>,
      <<90, 99, 97, 114, 111, 110, 115, 109, 97, 108, 108>>,
      <<68, 105, 101, 114, 101, 115, 105, 115, 115, 109, 97, 108, 108>>,
      <<66, 114, 101, 118, 101, 115, 109, 97, 108, 108>>,
      <<67, 97, 114, 111, 110, 115, 109, 97, 108, 108>>,
      <<68, 111, 116, 97, 99, 99, 101, 110, 116, 115, 109, 97, 108, 108>>,
      <<77, 97, 99, 114, 111, 110, 115, 109, 97, 108, 108>>,
      <<102, 105, 103, 117, 114, 101, 100, 97, 115, 104>>,
      <<104, 121, 112, 104, 101, 110, 105, 110, 102, 101, 114, 105, 111, 114>>,
      <<79, 103, 111, 110, 101, 107, 115, 109, 97, 108, 108>>,
      <<82, 105, 110, 103, 115, 109, 97, 108, 108>>,
      <<67, 101, 100, 105, 108, 108, 97, 115, 109, 97, 108, 108>>,
      <<113, 117, 101, 115, 116, 105, 111, 110, 100, 111, 119, 110, 115, 109, 97, 108, 108>>,
      <<111, 110, 101, 101, 105, 103, 104, 116, 104>>,
      <<116, 104, 114, 101, 101, 101, 105, 103, 104, 116, 104, 115>>,
      <<102, 105, 118, 101, 101, 105, 103, 104, 116, 104, 115>>,
      <<115, 101, 118, 101, 110, 101, 105, 103, 104, 116, 104, 115>>,
      <<111, 110, 101, 116, 104, 105, 114, 100>>,
      <<116, 119, 111, 116, 104, 105, 114, 100, 115>>,
      <<122, 101, 114, 111, 115, 117, 112, 101, 114, 105, 111, 114>>,
      <<102, 111, 117, 114, 115, 117, 112, 101, 114, 105, 111, 114>>,
      <<102, 105, 118, 101, 115, 117, 112, 101, 114, 105, 111, 114>>,
      <<115, 105, 120, 115, 117, 112, 101, 114, 105, 111, 114>>,
      <<115, 101, 118, 101, 110, 115, 117, 112, 101, 114, 105, 111, 114>>,
      <<101, 105, 103, 104, 116, 115, 117, 112, 101, 114, 105, 111, 114>>,
      <<110, 105, 110, 101, 115, 117, 112, 101, 114, 105, 111, 114>>,
      <<122, 101, 114, 111, 105, 110, 102, 101, 114, 105, 111, 114>>,
      <<111, 110, 101, 105, 110, 102, 101, 114, 105, 111, 114>>,
      <<116, 119, 111, 105, 110, 102, 101, 114, 105, 111, 114>>,
      <<116, 104, 114, 101, 101, 105, 110, 102, 101, 114, 105, 111, 114>>,
      <<102, 111, 117, 114, 105, 110, 102, 101, 114, 105, 111, 114>>,
      <<102, 105, 118, 101, 105, 110, 102, 101, 114, 105, 111, 114>>,
      <<115, 105, 120, 105, 110, 102, 101, 114, 105, 111, 114>>,
      <<115, 101, 118, 101, 110, 105, 110, 102, 101, 114, 105, 111, 114>>,
      <<101, 105, 103, 104, 116, 105, 110, 102, 101, 114, 105, 111, 114>>,
      <<110, 105, 110, 101, 105, 110, 102, 101, 114, 105, 111, 114>>,
      <<99, 101, 110, 116, 105, 110, 102, 101, 114, 105, 111, 114>>,
      <<100, 111, 108, 108, 97, 114, 105, 110, 102, 101, 114, 105, 111, 114>>,
      <<112, 101, 114, 105, 111, 100, 105, 110, 102, 101, 114, 105, 111, 114>>,
      <<99, 111, 109, 109, 97, 105, 110, 102, 101, 114, 105, 111, 114>>,
      <<65, 103, 114, 97, 118, 101, 115, 109, 97, 108, 108>>,
      <<65, 97, 99, 117, 116, 101, 115, 109, 97, 108, 108>>,
      <<65, 99, 105, 114, 99, 117, 109, 102, 108, 101, 120, 115, 109, 97, 108, 108>>,
      <<65, 116, 105, 108, 100, 101, 115, 109, 97, 108, 108>>,
      <<65, 100, 105, 101, 114, 101, 115, 105, 115, 115, 109, 97, 108, 108>>,
      <<65, 114, 105, 110, 103, 115, 109, 97, 108, 108>>,
      <<65, 69, 115, 109, 97, 108, 108>>,
      <<67, 99, 101, 100, 105, 108, 108, 97, 115, 109, 97, 108, 108>>,
      <<69, 103, 114, 97, 118, 101, 115, 109, 97, 108, 108>>,
      <<69, 97, 99, 117, 116, 101, 115, 109, 97, 108, 108>>,
      <<69, 99, 105, 114, 99, 117, 109, 102, 108, 101, 120, 115, 109, 97, 108, 108>>,
      <<69, 100, 105, 101, 114, 101, 115, 105, 115, 115, 109, 97, 108, 108>>,
      <<73, 103, 114, 97, 118, 101, 115, 109, 97, 108, 108>>,
      <<73, 97, 99, 117, 116, 101, 115, 109, 97, 108, 108>>,
      <<73, 99, 105, 114, 99, 117, 109, 102, 108, 101, 120, 115, 109, 97, 108, 108>>,
      <<73, 100, 105, 101, 114, 101, 115, 105, 115, 115, 109, 97, 108, 108>>,
      <<69, 116, 104, 115, 109, 97, 108, 108>>,
      <<78, 116, 105, 108, 100, 101, 115, 109, 97, 108, 108>>,
      <<79, 103, 114, 97, 118, 101, 115, 109, 97, 108, 108>>,
      <<79, 97, 99, 117, 116, 101, 115, 109, 97, 108, 108>>,
      <<79, 99, 105, 114, 99, 117, 109, 102, 108, 101, 120, 115, 109, 97, 108, 108>>,
      <<79, 116, 105, 108, 100, 101, 115, 109, 97, 108, 108>>,
      <<79, 100, 105, 101, 114, 101, 115, 105, 115, 115, 109, 97, 108, 108>>,
      <<79, 69, 115, 109, 97, 108, 108>>,
      <<79, 115, 108, 97, 115, 104, 115, 109, 97, 108, 108>>,
      <<85, 103, 114, 97, 118, 101, 115, 109, 97, 108, 108>>,
      <<85, 97, 99, 117, 116, 101, 115, 109, 97, 108, 108>>,
      <<85, 99, 105, 114, 99, 117, 109, 102, 108, 101, 120, 115, 109, 97, 108, 108>>,
      <<85, 100, 105, 101, 114, 101, 115, 105, 115, 115, 109, 97, 108, 108>>,
      <<89, 97, 99, 117, 116, 101, 115, 109, 97, 108, 108>>,
      <<84, 104, 111, 114, 110, 115, 109, 97, 108, 108>>,
      <<89, 100, 105, 101, 114, 101, 115, 105, 115, 115, 109, 97, 108, 108>>,
      <<48, 48, 49, 46, 48, 48, 48>>, <<48, 48, 49, 46, 48, 48, 49>>,
      <<48, 48, 49, 46, 48, 48, 50>>, <<48, 48, 49, 46, 48, 48, 51>>,
      <<66, 108, 97, 99, 107>>, <<66, 111, 108, 100>>, <<66, 111, 111, 107>>,
      <<76, 105, 103, 104, 116>>, <<77, 101, 100, 105, 117, 109>>,
      <<82, 101, 103, 117, 108, 97, 114>>, <<82, 111, 109, 97, 110>>,
      <<83, 101, 109, 105, 98, 111, 108, 100>>>>

\* A width of the Private DICT in units of 1/65536.
Fixed(val) == (val.m * One) \div 10 ^ (0 - val.e)
\* uint16(w) of a width in units of 1/65536.
Uint16Of(w) ==
    (IF w >= 0 THEN w \div One ELSE 0 - ((0 - w) \div One)) % 65536

\* parseCFFWidths, one glyph: the width of CharString i, 0-based.  The slice
\* data[start : start+length] panics for a negative length.
GlyphWidth(data, charStrOff, count, i, nominal, def) ==
    LET offSize == At(data, charStrOff + 2)
        p1 == charStrOff + 3 + i * offSize
        off1 == ReadCFFOffset(data, p1, offSize)
        off2 == ReadCFFOffset(data, p1 + offSize, offSize)
        start == charStrOff + 3 + (count + 1) * offSize + (off1 - 1)
        length == off2 - off1
        w == ScanCharStringWidth(Slice(data, start, start + length),
                                 nominal, def)
    IN  IF start < 0 \/ start + length > Len(data) THEN Num(Uint16Of(def))
        ELSE IF length < 0 THEN NumPanic
        ELSE IF w.panic THEN NumPanic
        ELSE Num(Uint16Of(w.w))

\* parseCFFWidths: the advance width of each glyph.
Widths(panic, err, widths) ==
    [panic |-> panic, err |-> err, widths |-> widths]
WidthsOfGlyphs(numGlyphs, glyph) ==
    IF \E k \in 1..numGlyphs : glyph[k].panic THEN Widths(TRUE, FALSE, <<>>)
    ELSE Widths(FALSE, FALSE, [k \in 1..numGlyphs |-> glyph[k].v])
WidthsFromCharStrings(data, numGlyphs, defaultWidthX, nominalWidthX, charStrOff, cs) ==
    IF cs.panic THEN Widths(TRUE, FALSE, <<>>)
    ELSE WidthsOfGlyphs(numGlyphs,
             [k \in 1..numGlyphs |->
                 IF k <= cs.count
                 THEN GlyphWidth(data, charStrOff, cs.count, k - 1,
                                 nominalWidthX, defaultWidthX)
                 ELSE Num(Uint16Of(defaultWidthX))])
WidthsFromPrivDict(data, numGlyphs, topDict, privDict) ==
    IF Len(Operands(topDict, 17)) = 0 THEN Widths(FALSE, TRUE, <<>>)
    ELSE WidthsFromCharStrings(data, numGlyphs,
             IF Len(Operands(privDict, 20)) > 0 THEN Fixed(privDict[20][1])
             ELSE 0,
             IF Len(Operands(privDict, 21)) > 0 THEN Fixed(privDict[21][1])
             ELSE 0,
             DecTrunc(topDict[17][1]),
             GetCFFIndexCount(data, DecTrunc(topDict[17][1])))
WidthsFromPrivate(data, numGlyphs, topDict, hasPriv, privOff, privSize) ==
    IF hasPriv /\ privOff < 0 THEN Widths(TRUE, FALSE, <<>>)
    ELSE WidthsFromPrivDict(data, numGlyphs, topDict,
             IF hasPriv
             THEN ParseCFFDict(Slice(data, privOff, privOff + privSize))
             ELSE NoDict)
WidthsFromTopDict(data, numGlyphs, topDict) ==
    LET hasPair == Len(Operands(topDict, 18)) = 2
        privSize == DecTrunc(topDict[18][1])
        privOff == DecTrunc(topDict[18][2])
    IN  WidthsFromPrivate(data, numGlyphs, topDict,
            hasPair /\ privSize > 0 /\ privOff + privSize <= Len(data),
            privOff, privSize)
WidthsFromTop(data, numGlyphs, topDictData) ==
    IF topDictData.nil THEN Widths(FALSE, TRUE, <<>>)
    ELSE WidthsFromTopDict(data, numGlyphs, ParseCFFDict(topDictData.data))
ParseCFFWidths(data, numGlyphs) ==
    IF Len(data) < 4 THEN Widths(FALSE, TRUE, <<>>)
    ELSE WidthsFromTop(data, numGlyphs,
             GetCFFIndexData(data,
                 At(data, 2) + GetCFFIndexCount(data, At(data, 2)).size))

\* parseCFFCharset: the SIDs of glyphs 1, 2, ... in the three formats.
RECURSIVE CharsetSIDs(_, _, _, _, _)
CharsetSIDs(data, format, pos, count, sids) ==
    LET first == Uint16At(data, pos)
    IN  IF format = 0 /\ Len(sids) < count /\ pos + 2 <= Len(data)
        THEN CharsetSIDs(data, format, pos + 2, count, Append(sids, first))
        ELSE IF format = 1 /\ Len(sids) < count /\ pos + 3 <= Len(data)
        THEN CharsetSIDs(data, format, pos + 3, count,
                 sids \o [j \in 1..(At(data, pos + 2) + 1) |-> first + j - 1])
        ELSE IF format = 2 /\ Len(sids) < count /\ pos + 4 <= Len(data)
        THEN CharsetSIDs(data, format, pos + 4, count,
                 sids \o [j \in 1..(Uint16At(data, pos + 2) + 1) |->
                             first + j - 1])
        ELSE IF Len(sids) > count THEN SubSeq(sids, 1, count)
        ELSE sids
ParseCFFCharset(data, offset, numGlyphs) ==
    IF offset >= Len(data) THEN <<>>
    ELSE CharsetSIDs(data, At(data, offset), offset + 1, numGlyphs - 1, <<>>)

\* readStringIndexItem: item idx of the String INDEX at offset.  The two
\* header reads panic when the data ends inside the header, the slice when
\* the offsets of the item decrease.
Name(panic, name) == [panic |-> panic, name |-> name]
ReadStringIndexItem(data, offset, idx) ==
    LET count == Uint16At(data, offset)
        offSize == At(data, offset + 2)
        p1 == offset + 3 + idx * offSize
        p2 == p1 + offSize
        loc1 == ReadCFFOffset(data, p1, offSize)
        loc2 == ReadCFFOffset(data, p2, offSize)
        start == offset + 3 + (count + 1) * offSize + loc1 - 1
        length == loc2 - loc1
    IN  IF offset >= Len(data) THEN Name(FALSE, <<>>)
        ELSE IF offset + 3 > Len(data) THEN Name(TRUE, <<>>)
        ELSE IF idx >= count THEN Name(FALSE, <<>>)
        ELSE IF p2 + offSize > Len(data) THEN Name(FALSE, <<>>)
        ELSE IF start < 0 \/ start + length > Len(data) THEN Name(FALSE, <<>>)
        ELSE IF length < 0 THEN Name(TRUE, <<>>)
        ELSE Name(FALSE, Slice(data, start, start + length))

\* strconv.ParseInt(strings.ToUpper(s), 16, 32): an optional sign and hex
\* digits.
HexDigit(b) ==
    IF b >= 48 /\ b <= 57 THEN b - 48
    ELSE IF b >= 65 /\ b <= 70 THEN b - 55
    ELSE IF b >= 97 /\ b <= 102 THEN b - 87
    ELSE -1
RECURSIVE HexValue(_)
HexValue(s) ==
    IF s = <<>> THEN 0
    ELSE HexValue(SubSeq(s, 1, Len(s) - 1)) * 16 + HexDigit(s[Len(s)])
ParseHex(s) ==
    LET signed == s # <<>> /\ s[1] \in {43, 45}
        digits == IF signed THEN Tail(s) ELSE s
    IN  IF digits = <<>> \/ \E k \in 1..Len(digits) : HexDigit(digits[k]) < 0
        THEN [ok |-> FALSE, v |-> 0]
        ELSE [ok |-> TRUE,
              v |-> IF signed /\ s[1] = 45 THEN 0 - HexValue(digits)
                    ELSE HexValue(digits)]

\* getUnicodeFromName: uniXXXX, uXXXX to uXXXXXX, the names of the switch,
\* one-character names; 0 for any other name.
GetUnicodeFromName(name) ==
    LET n == Len(name)
        uni == n >= 3 /\ SubSeq(name, 1, 3) = <<117, 110, 105>>
        hex4 == ParseHex(SubSeq(name, 4, n))
        hexU == ParseHex(Tail(name))
        known == {p \in GlyphNameRunes : p[1] = name}
    IN  IF uni /\ n = 7 /\ hex4.ok THEN hex4.v
        ELSE IF n >= 5 /\ n <= 7 /\ name[1] = 117 /\ ~uni /\ hexU.ok
        THEN hexU.v
        ELSE IF known # {} THEN (CHOOSE p \in known : TRUE)[2]
        ELSE IF n = 1 THEN name[1]
        ELSE 0

\* getCmapFromCFF: the rune of each glyph but glyph 0, a later glyph taking
\* the rune of an earlier one.  sids[0] = 0 panics for a font of no glyphs.
RECURSIVE CmapFrom(_, _, _, _, _)
CmapFrom(data, stringIndexOff, sids, gid, m) ==
    IF gid >= Len(sids) THEN [panic |-> FALSE, mapping |-> Mapping(m)]
    ELSE LET sid == sids[gid + 1]
             name == IF sid <= 390
                     THEN Name(FALSE, IF sid < Len(CffStandardStrings)
                                      THEN CffStandardStrings[sid + 1]
                                      ELSE <<>>)
                     ELSE ReadStringIndexItem(data, stringIndexOff, sid - 391)
             named == IF name.name # <<>> THEN GetUnicodeFromName(name.name)
                      ELSE 0
             r == IF named = 0 THEN 57344 + gid ELSE named
         IN  IF name.panic THEN [panic |-> TRUE, mapping |-> NilMapping]
             ELSE CmapFrom(data, stringIndexOff, sids, gid + 1,
                           [c \in DOMAIN m \cup {r} |->
                               IF c = r THEN gid % 65536 ELSE m[c]])
CmapFromCharset(data, numGlyphs, stringIndexOff, charsetOff, sidsParsed) ==
    IF numGlyphs = 0 THEN [panic |-> TRUE, mapping |-> NilMapping]
    ELSE IF charsetOff > 2
    THEN CmapFrom(data, stringIndexOff,
                  [k \in 1..numGlyphs |->
                      IF k >= 2 /\ k - 1 <= Len(sidsParsed)
                      THEN sidsParsed[k - 1] ELSE 0],
                  1, [c \in {} |-> 0])
    ELSE IF charsetOff = 0
    THEN CmapFrom(data, stringIndexOff,
                  [k \in 1..numGlyphs |->
                      IF k >= 2 /\ k - 1 <= 228 THEN k - 1 ELSE 0],
                  1, [c \in {} |-> 0])
    ELSE [panic |-> FALSE, mapping |-> NilMapping]
CmapFromTopDict(data, numGlyphs, stringIndexOff, charsetOff) ==
    CmapFromCharset(data, numGlyphs, stringIndexOff, charsetOff,
                    ParseCFFCharset(data, charsetOff, numGlyphs))
CmapFromTop(data, numGlyphs, stringIndexOff, topDictData, td) ==
    IF topDictData.nil THEN [panic |-> FALSE, mapping |-> NilMapping]
    ELSE CmapFromTopDict(data, numGlyphs, stringIndexOff,
             IF Len(Operands(td, 15)) > 0 THEN DecTrunc(td[15][1]) ELSE 0)
CmapFromName(data, numGlyphs, o1, topDictData) ==
    CmapFromTop(data, numGlyphs, o1 + GetCFFIndexCount(data, o1).size,
                topDictData, ParseCFFDict(topDictData.data))
GetCmapFromCFF(data, numGlyphs) ==
    IF Len(data) < 4 THEN [panic |-> FALSE, mapping |-> NilMapping]
    ELSE CmapFromName(data, numGlyphs,
             At(data, 2) + GetCFFIndexCount(data, At(data, 2)).size,
             GetCFFIndexData(data,
                 At(data, 2) + GetCFFIndexCount(data, At(data, 2)).size))

\* wrapCFFToOTF: the unitsPerEm read from the FontMatrix of the Top DICT.
UnitsPerEmFrom(data, nil, mat) ==
    IF Len(data) > 4 /\ ~nil /\ Len(mat) > 0 /\ mat[1].m > 0
    THEN RoundInverse(mat[1]) % 65536
    ELSE 1000
UnitsPerEmOf(data, topDictData) ==
    UnitsPerEmFrom(data, topDictData.nil,
                   Operands(ParseCFFDict(topDictData.data), 1207))

\* wrapCFFToOTF: the sanitized font inside an sfnt of nine tables.
WrapTables(data, numGlyphs, parsed, cmap) ==
    IF parsed.panic THEN CffPanic
    ELSE IF cmap.panic THEN CffPanic
    ELSE CffResult(FALSE, FALSE, SerializeOTF(
             (TagCFF :> data)
             @@ (TagHead :> BuildHeadTable(
                     UnitsPerEmOf(data,
                         GetCFFIndexData(data,
                             At(data, 2)
                             + GetCFFIndexCount(data, At(data, 2)).size))))
             @@ (TagHhea :> BuildHheaTable(numGlyphs % 65536))
             @@ (TagMaxp :> BuildMaxpTable(numGlyphs % 65536))
             @@ (TagOS2 :> BuildOS2TableWithMetrics(800, -200))
             @@ (TagName :> BuildNameTable)
             @@ (TagPost :> BuildPostTable)
             @@ (TagHmtx :> BuildHmtxTable(
                     IF parsed.err THEN [k \in 1..numGlyphs |-> 500]
                     ELSE parsed.widths))
             @@ (TagCmap :> BuildCmapTable(numGlyphs % 65536,
                                           cmap.mapping))))
WrapCounted(data, glyphs) ==
    IF glyphs.err THEN CffError
    ELSE WrapTables(data, glyphs.count, ParseCFFWidths(data, glyphs.count),
                    GetCmapFromCFF(data, glyphs.count))
WrapSanitized(sanitized) ==
    IF sanitized.panic THEN CffPanic
    ELSE IF sanitized.err THEN CffError
    ELSE WrapCounted(sanitized.data, ParseCFFAndCountGlyphs(sanitized.data))
WrapCFFToOTF(cffData) == WrapSanitized(SanitizeCFF(cffData))

\* FixFontDataAggressive: whether the font was fixed, and the font returned.
FixRawCFF(data, fixCmap, fixName, otf) ==
    IF otf.panic THEN Panicked
    ELSE IF ~otf.err THEN FtResult(FALSE, TRUE, otf.data, 0)
    ELSE FixTrueType(data, fixCmap, fixName)
FixFontDataAggressive(data, fixCmap, fixName) ==
    IF Len(data) < 4 THEN FtResult(FALSE, FALSE, data, 0)
    ELSE IF Slice(data, 0, 4) = TtcfTag THEN FtResult(FALSE, FALSE, data, 0)
    ELSE IF Slice(data, 0, 4) # U32(65536) /\ Slice(data, 0, 4) # TrueTag
            /\ Slice(data, 0, 4) # OTTO
            /\ At(data, 0) = 1 /\ At(data, 1) = 0 /\ At(data, 2) = 4
    THEN FixRawCFF(data, fixCmap, fixName, WrapCFFToOTF(data))
    ELSE FixTrueType(data, fixCmap, fixName)
\* A raw CFF font as sanitizeCFF walks it: header, Name INDEX, Top DICT
\* INDEX, String INDEX, Global Subr INDEX, CharStrings INDEX, Private DICT,
\* charset and, for a CID-keyed font, the FDArray.  Offsets are written as
\* five-byte integers, so that they do not move what follows them.
Int29(v) == <<29>> \o U32(v)
ScaleMatrix(s) == <<s, DecInt(0), DecInt(0), s, DecInt(0), DecInt(0)>>
FontMatrixOp(matrix) ==
    IF matrix = <<>> THEN <<>> ELSE EncodeOperands(matrix, 1) \o <<12, 7>>
PrivateOp(font, priv) ==
    IF font.private = <<>> THEN <<>>
    ELSE Int29(Len(font.private)) \o Int29(priv) \o <<18>>
TopDictOf(font, cs, priv, chs, fda) ==
    (IF font.cid THEN <<139, 139, 139, 12, 30>> ELSE <<>>)
    \o FontMatrixOp(font.topMatrix)
    \o (IF font.charset # <<>> THEN Int29(chs) \o <<15>> ELSE <<>>)
    \o (IF font.charStrings THEN Int29(cs) \o <<17>> ELSE <<>>)
    \o (IF font.cid THEN Int29(fda) \o <<12, 36>> ELSE PrivateOp(font, priv))
\* The parts of a font whose INDEXes are name, strings, globalSubrs and
\* charStrings and whose CharStrings INDEX starts at cs.
PartsAt(font, name, strings, globalSubrs, charStrings, cs) ==
    LET priv == cs + Len(charStrings)
        chs == priv + Len(font.private)
        fda == chs + Len(font.charset)
        fontDict == FontMatrixOp(font.fdMatrix) \o PrivateOp(font, priv)
    IN  <<<<1, 0, 4, 1>>, name,
          EncodeCFFIndex(<<TopDictOf(font, cs, priv, chs, fda)>>), strings,
          globalSubrs, charStrings, font.private, font.charset,
          IF font.cid THEN EncodeCFFIndex([k \in 1..font.fds |-> fontDict])
          ELSE <<>>>>
PartsOf(font, name, strings, globalSubrs, charStrings) ==
    PartsAt(font, name, strings, globalSubrs, charStrings,
            4 + Len(name)
            + Len(EncodeCFFIndex(<<TopDictOf(font, 0, 0, 0, 0)>>))
            + Len(strings) + Len(globalSubrs))
CFFParts(font) ==
    PartsOf(font, EncodeCFFIndex(<< <<70>> >>), EncodeCFFIndex(font.strings),
            EncodeCFFIndex(<<>>), EncodeCFFIndex(font.glyphs))
RawCFF(font) == Concat(CFFParts(font), 1)

\* The positions of the count, offSize and offset bytes of the INDEXes of a
\* font.
HeaderSize(index) ==
    IF Uint16At(index, 0) = 0 THEN 2
    ELSE 3 + (Uint16At(index, 0) + 1) * At(index, 2)
HeaderFields(parts) ==
    UNION {{Len(Concat(SubSeq(parts, 1, k - 1), 1)) + j :
               j \in 0..(HeaderSize(parts[k]) - 1)} :
              k \in {k \in {2, 3, 4, 5, 6, 9} : Len(parts[k]) >= 2}}
IndexFields(font) == HeaderFields(CFFParts(font))

\* Glyph programs: endchar; 116 endchar; 0 0 rmoveto endchar; 300 endchar;
\* 100.5 endchar; -116 0 vmoveto endchar.
Glyphs2 == << <<14>>, <<247, 8, 14>> >>
Glyphs3 == << <<14>>, <<139, 139, 21, 14>>, <<28, 1, 44, 14>> >>
Glyphs4 ==
    << <<14>>, <<247, 8, 14>>, <<255, 0, 100, 128, 0, 14>>,
       <<251, 8, 139, 4, 14>> >>
\* A Private DICT: defaultWidthX 500, nominalWidthX 100.
Private500 == <<248, 136, 20, 239, 21>>

Font(cid, fds, topMatrix, fdMatrix, private, charset, strings, glyphs, charStrings) ==
    [cid |-> cid, fds |-> fds, topMatrix |-> topMatrix,
     fdMatrix |-> fdMatrix, private |-> private, charset |-> charset,
     strings |-> strings, glyphs |-> glyphs, charStrings |-> charStrings]

\* CID-keyed fonts of one Font DICT: the Top DICT has no FontMatrix, one of
\* a single operand, or one of six operands whose scale is 0.002, 0.001,
\* 0.00004, 1, 0.003, 0 or -0.001; the Font DICT has none or scales by 0.5,
\* 1 or 2.
TopMatrices ==
    {<<>>, <<Dec(2, -3)>>}
    \cup {ScaleMatrix(s) : s \in {Dec(2, -3), Dec(1, -3), Dec(4, -5),
                                  DecInt(1), Dec(3, -3), DecInt(0),
                                  Dec(-1, -3)}}
    \cup {<<Dec(2, -3), DecInt(1), Dec(5, -1), Dec(4, -3), DecInt(7),
            DecInt(-9)>>}
FdMatrices ==
    {<<>>, ScaleMatrix(Dec(5, -1)), ScaleMatrix(DecInt(1)),
     ScaleMatrix(DecInt(2))}
CidFont(topMatrix, fdMatrix) ==
    Font(TRUE, 1, topMatrix, fdMatrix, Private500, <<>>, <<>>, Glyphs3, TRUE)
CidFonts == {CidFont(t, f) : t \in TopMatrices, f \in FdMatrices}

\* Other fonts: a plain one; one with a format 0 charset naming its glyphs
\* "A", "uni4E2D" and "u1F600"; two with range charsets; one of no glyphs;
\* CID-keyed ones of two Font DICTs, of no Private DICT, of no CharStrings
\* operator; and ones whose last glyph ends inside an operand.
PlainFont ==
    Font(FALSE, 1, <<>>, <<>>, Private500, <<>>, <<>>, Glyphs2, TRUE)
NamedGlyphsFont ==
    Font(FALSE, 1, <<>>, <<>>, Private500, <<0, 0, 34, 1, 135, 1, 136>>,
         << <<117, 110, 105, 52, 69, 50, 68>>,
            <<117, 49, 70, 54, 48, 48>> >>, Glyphs4, TRUE)
RangedFont ==
    Font(FALSE, 1, <<>>, <<>>, <<>>, <<1, 0, 1, 0, 1, 136, 1>>,
         << <<120>>, <<>>, <<97, 116>> >>, Glyphs4, TRUE)
WideRangedFont ==
    Font(FALSE, 1, ScaleMatrix(Dec(2, -3)), <<>>, <<>>, <<2, 0, 14, 0, 5>>,
         <<>>, Glyphs4, TRUE)
NoGlyphsFont ==
    Font(FALSE, 1, <<>>, <<>>, Private500, <<>>, <<>>, <<>>, TRUE)
TruncatedOperands == {<<28, 1>>, <<247>>, <<255, 0, 1>>, <<28>>}
OtherFonts ==
    {PlainFont, NamedGlyphsFont, RangedFont, WideRangedFont, NoGlyphsFont,
     Font(TRUE, 2, <<>>, <<>>, <<>>, <<>>, <<>>, Glyphs2, TRUE),
     Font(TRUE, 1, <<>>, <<>>, <<>>, <<>>, <<>>, Glyphs2, TRUE),
     Font(TRUE, 1, <<>>, <<>>, <<>>, <<>>, <<>>, Glyphs2, FALSE)}
    \cup {Font(FALSE, 1, <<>>, <<>>, Private500, <<>>, <<>>,
               Append(Glyphs2, g), TRUE) : g \in TruncatedOperands}

\* Damaged fonts: a font cut short at any length, and a font with one byte
\* of an INDEX header set to 0, 1 or 255.
Prefixes(data) == {Slice(data, 0, n) : n \in 0..Len(data)}
Patched(data, i, v) ==
    [k \in 1..Len(data) |-> IF k = i + 1 THEN v ELSE data[k]]
PatchedFields(data, fields) ==
    {Patched(data, i, v) : i \in fields, v \in {0, 1, 255}}
DamagedFonts ==
    UNION {Prefixes(RawCFF(f)) :
              f \in {PlainFont, NamedGlyphsFont,
                     CidFont(<<>>, ScaleMatrix(Dec(5, -1)))}}
    \cup UNION {PatchedFields(RawCFF(f), IndexFields(f)) :
                   f \in {NamedGlyphsFont,
                          CidFont(<<>>, ScaleMatrix(Dec(5, -1)))}}

\* The raw CFF data given to wrapCFFToOTF.
RawCFFs == {RawCFF(f) : f \in CidFonts \cup OtherFonts} \cup DamagedFonts

\* An sfnt file: the version, numTables, a directory of the tables laid out
\* one after the other behind it, then directory entries that are given
\* with their offset and length, then the tables.
W32Of(n) == W32(n \div 65536, n % 65536)
DirEntry(tag, offset, length) ==
    tag \o Zeros(4) \o U32W(offset) \o U32W(length)
RECURSIVE LaidOut(_, _, _)
LaidOut(tabs, k, offset) ==
    IF k > Len(tabs) THEN <<>>
    ELSE DirEntry(tabs[k][1], W32Of(offset), W32Of(Len(tabs[k][2])))
         \o LaidOut(tabs, k + 1, offset + Len(tabs[k][2]))
Sfnt(version, numTables, tabs, entries) ==
    version \o U16(numTables) \o Zeros(6)
    \o LaidOut(tabs, 1, 12 + 16 * (Len(tabs) + Len(entries)))
    \o Concat([k \in 1..Len(entries) |->
                  DirEntry(entries[k][1], entries[k][2], entries[k][3])], 1)
    \o Concat([k \in 1..Len(tabs) |-> tabs[k][2]], 1)

\* The eight required tables of a font of three glyphs, in the order of the
\* file; its hhea has ascender 900 and descender -300.
RequiredOrder ==
    <<TagHead, TagMaxp, TagHhea, TagHmtx, TagOS2, TagCmap, TagName, TagPost>>
InputTables ==
    (TagHead :> BuildHeadTable(2048)) @@ (TagMaxp :> BuildMaxpTable(3))
    @@ (TagHhea :> U32(65536) \o U16(900) \o U16(65236)
                   \o Slice(BuildHheaTable(3), 8, 36))
    @@ (TagHmtx :> BuildHmtxTable(<<600, 700, 800>>))
    @@ (TagOS2 :> BuildOS2TableWithMetrics(900, -300))
    @@ (TagCmap :> BuildCmapTable(3, Mapping((65 :> 1) @@ (66 :> 2))))
    @@ (TagName :> BuildNameTable) @@ (TagPost :> BuildPostTable)
\* The first n required tables, one of them replaced.
FirstTables(n, tag, data) ==
    [k \in 1..n |-> <<RequiredOrder[k],
                      IF RequiredOrder[k] = tag THEN data
                      ELSE InputTables[RequiredOrder[k]]>>]
\* The required tables of a set.
TablesOf(tags) ==
    LET Chosen(t) == t \in tags
        order == SelectSeq(RequiredOrder, Chosen)
    IN  [k \in 1..Len(order) |-> <<order[k], InputTables[order[k]]>>]
TrueType(tabs, entries) ==
    Sfnt(U32(65536), Len(tabs) + Len(entries), tabs, entries)

\* cmap tables: of a Macintosh sub-table only, of a Macintosh and a Windows
\* one, and of two records the second of which is cut short.
MacCmap == U16s(<<0, 1, 1, 0, 0, 12>>)
MacWindowsCmap == U16s(<<0, 2, 1, 0, 0, 20, 3, 1, 0, 20>>)
CutCmap == U16s(<<0, 2, 1, 0, 0, 20, 3, 1>>)

\* Directory entries that name no table of the file: one past the end of
\* the file, and ones whose offset + length wraps modulo 2^32.
FarEntry == <<TagPost, W32Of(5000), W32Of(4)>>
WrappingEntries ==
    {<<TagPost, W32(65535, 65520), W32Of(32)>>,
     <<TagPost, W32(65535, 65535), W32Of(1)>>,
     <<TagPost, W32(32768, 0), W32(32768, 0)>>,
     <<TagGlyf, W32(65535, 65280), W32Of(272)>>}
HugeEntry == <<TagPost, W32(65535, 65535), W32(65535, 65535)>>

\* The sfnt files given to FixFontDataAggressive: every subset of the
\* required tables; other versions; unusable and short tables; directories
\* longer and shorter than numTables says; files cut short; stray entries.
Sfnts ==
    {TrueType(TablesOf(tags), <<>>) : tags \in SUBSET DOMAIN InputTables}
    \cup {Sfnt(TrueTag, 5, FirstTables(5, <<>>, <<>>), <<>>),
          Sfnt(OTTO, 7, Append(FirstTables(6, <<>>, <<>>),
                               <<TagCFF, <<1, 0, 4, 1>>>>), <<>>),
          Sfnt(<<119, 79, 70, 70>>, 3, FirstTables(3, <<>>, <<>>), <<>>),
          Sfnt(TtcfTag, 3, FirstTables(3, <<>>, <<>>), <<>>),
          Sfnt(U32(65536), 9, FirstTables(7, <<>>, <<>>), <<>>),
          Sfnt(U32(65536), 3, FirstTables(7, <<>>, <<>>), <<>>),
          Slice(TrueType(FirstTables(7, <<>>, <<>>), <<>>), 0, 100),
          Slice(TrueType(<<>>, <<>>), 0, 11),
          TrueType(FirstTables(7, <<>>, <<>>), <<>>) \o <<122, 122>>,
          TrueType(Append(FirstTables(6, <<>>, <<>>),
                          <<TagGlyf, <<97, 98, 99, 100, 101>>>>), <<>>),
          TrueType(FirstTables(7, <<>>, <<>>), <<FarEntry>>),
          TrueType(FirstTables(7, <<>>, <<>>), <<HugeEntry>>),
          TrueType(FirstTables(7, <<>>, <<>>),
                   <<<<TagPost, W32Of(12), W32Of(0)>>>>)}
    \cup {TrueType(FirstTables(8, TagCmap, cmap), <<>>) :
             cmap \in {MacCmap, MacWindowsCmap, CutCmap, <<0, 0>>, <<>>}}
    \cup {TrueType(FirstTables(7, TagMaxp, maxp), <<>>) :
             maxp \in {U32(20480) \o U16(0), <<0, 0>>}}
    \cup {TrueType(FirstTables(4, TagHhea, <<0, 1>>), <<>>),
          TrueType(FirstTables(7, TagHead, <<>>), <<>>)}
    \cup {TrueType(FirstTables(n, <<>>, <<>>), <<e>>) :
             n \in {7, 8}, e \in WrappingEntries}

\* The tables handed to serializeOTF: a head table that is the one
\* buildHeadTable makes, one of twelve bytes with a checkSumAdjustment
\* already set, shorter ones, or none; and any of four other tables.
HeadChoices ==
    {<<>>, <<255, 255, 255, 255>>, <<1, 2, 3, 4, 5, 6, 7, 8, 9>>,
     <<0, 1, 0, 0, 0, 0, 0, 0, 222, 173, 190, 239>>, BuildHeadTable(1000)}
OtherTables ==
    (TagCFF :> <<1, 0, 4, 1>>) @@ (TagHhea :> BuildHheaTable(2))
    @@ (TagOS2 :> <<128, 0, 0, 0, 128, 0, 0, 1>>)
    @@ (<<122, 122, 122, 122>> :> <<255, 255, 255, 255, 255>>)
TableMaps ==
    {[t \in others |-> OtherTables[t]] : others \in SUBSET DOMAIN OtherTables}
    \cup {(TagHead :> head) @@ [t \in others |-> OtherTables[t]] :
              head \in HeadChoices, others \in SUBSET DOMAIN OtherTables}

\* The font operations at rest.
FtIdle(data, fixCmap, fixName, tables, nominal, def) ==
    /\ ftData = data
    /\ ftFixCmap = fixCmap
    /\ ftFixName = fixName
    /\ ftTables = tables
    /\ ftNominal = nominal
    /\ ftDef = def
    /\ ftOp = "none"
    /\ ftOut = FtNone

\* A CharString and the two widths of its Private DICT.
FtCharStringInit ==
    \E data \in CharStrings, nominal \in WidthValues, def \in WidthValues :
        FtIdle(data, FALSE, FALSE, EmptyMap, nominal, def)

\* scanCharStringWidth(data, nominal, def).
ftScanCharStringWidth ==
    /\ ftOp = "none"
    /\ ftOut' = ScanCharStringWidth(ftData, ftNominal, ftDef)
    /\ ftOp' = "scanCharStringWidth"
    /\ UNCHANGED <<ftData, ftFixCmap, ftFixName, ftTables, ftNominal, ftDef,
                   NotFt>>

FtCharStringNext == ftScanCharStringWidth

\* C19: for a CharString that is one operand X, in any of its Type 2
\* encodings, followed by endchar (14), scanCharStringWidth returns
\* nominalWidthX + X; for endchar alone it returns defaultWidthX.
C19_WidthOfOperandThenEndchar ==
    ftOp = "scanCharStringWidth" =>
        /\ \A v \in OperandValues : \A enc \in Type2Encodings(v) :
              ftData = enc \o <<14>> =>
                  ~ftOut.panic /\ ftOut.w = ftNominal + v
        /\ ftData = <<14>> => ~ftOut.panic /\ ftOut.w = ftDef

\* The 255-prefixed operand 1.5 followed by endchar, scanned with a nominal
\* width of 500 and another default width: 501.5 is returned.
C19_Witness ==
    /\ ftOp = "scanCharStringWidth"
    /\ ftData = <<255, 0, 1, 128, 0, 14>>
    /\ ftNominal = 500 * One
    /\ ftDef = 0
    /\ ftOut.w = 501 * One + 32768

\* A table map.
FtTablesInit ==
    \E tables \in TableMaps : FtIdle(<<>>, FALSE, FALSE, tables, 0, 0)

\* serializeOTF(tables).
ftSerializeOTF ==
    /\ ftOp = "none"
    /\ ftOut' = FtResult(FALSE, TRUE, SerializeOTF(ftTables), 0)
    /\ ftOp' = "serializeOTF"
    /\ UNCHANGED <<ftData, ftFixCmap, ftFixName, ftTables, ftNominal, ftDef,
                   NotFt>>

FtTablesNext == ftSerializeOTF

\* C16: in an sfnt emitted by serializeOTF that holds a head table, the
\* 32-bit field at offset 8 of the head table equals 0xB1B0AFBA minus the
\* sum, modulo 2^32, of the big-endian 32-bit words of the whole file with
\* that field set to zero.  (A head table so short that the file ends before
\* the field has no such field.)
C16_CheckSumAdjustment ==
    ftOp = "serializeOTF" /\ TagHead \in DOMAIN ftTables =>
        LET out == ftOut.data
            field == SfntEntry(out, TagHead).offset + 8
        IN  /\ Len(out) % 4 = 0
            /\ TagHead \in SfntTags(out)
            /\ field + 4 <= Len(out) =>
                  W32At(out, field) =
                      Sub32(ChecksumMagic,
                            Sum32(PutUint32(out, field, Zeros(4)), 0,
                                  (Len(out) \div 4) - 1))

\* A file made of a head table whose checkSumAdjustment bytes were set on
\* entry, of a CFF table and of a table of 0xFF bytes that makes the sum
\* wrap: the field no longer holds the bytes it came with.
C16_Witness ==
    /\ ftOp = "serializeOTF"
    /\ DOMAIN ftTables = {TagHead, TagCFF, <<122, 122, 122, 122>>}
    /\ ftTables[TagHead] = <<0, 1, 0, 0, 0, 0, 0, 0, 222, 173, 190, 239>>
    /\ LET field == SfntEntry(ftOut.data, TagHead).offset + 8
       IN  /\ Slice(ftOut.data, field, field + 4) # <<222, 173, 190, 239>>
           /\ Slice(ftOut.data, 0, 4) = OTTO

\* A font file handed to the repair: an sfnt with either setting of the two
\* flags, or a raw CFF.
FtFontInit ==
    \/ \E data \in Sfnts, fixCmap \in BOOLEAN, fixName \in BOOLEAN :
           FtIdle(data, fixCmap, fixName, EmptyMap, 0, 0)
    \/ \E data \in RawCFFs : FtIdle(data, TRUE, TRUE, EmptyMap, 0, 0)

\* FixFontDataAggressive(data, fixCmap, fixName).
ftFixFontDataAggressive ==
    /\ ftOp = "none"
    /\ ftOut' = FixFontDataAggressive(ftData, ftFixCmap, ftFixName)
    /\ ftOp' = "FixFontDataAggressive"
    /\ UNCHANGED <<ftData, ftFixCmap, ftFixName, ftTables, ftNominal, ftDef,
                   NotFt>>

FtFontNext == ftFixFontDataAggressive

\* C14: FixFontDataAggressive returns normally on every input, whatever the
\* sfnt directory entries, the CFF INDEX headers, the glyph count or the
\* CharString operands say: no read outside the data makes it panic.
C14_NeverPanics ==
    ftOp = "FixFontDataAggressive" => ~ftOut.panic

\* The directory entries of an input that lie in the file and name bytes of
\* the file: offset <= len(data) and length <= len(data) - offset.
InRangeEntries(data) ==
    {k \in 0..(Uint16At(data, 4) - 1) :
        /\ 28 + 16 * k <= Len(data)
        /\ AtMost32(W32At(data, 20 + 16 * k), Len(data))
        /\ AtMost32(W32At(data, 24 + 16 * k),
                    Len(data) - IntOf(W32At(data, 20 + 16 * k)))}
InRangeTags(data) ==
    {Slice(data, 12 + 16 * k, 16 + 16 * k) : k \in InRangeEntries(data)}
\* The table an input holds under a tag: that of the last such entry.
InRangeTable(data, tag) ==
    LET k == CHOOSE k \in InRangeEntries(data) :
                 /\ Slice(data, 12 + 16 * k, 16 + 16 * k) = tag
                 /\ \A j \in InRangeEntries(data) :
                        Slice(data, 12 + 16 * j, 16 + 16 * j) = tag => j <= k
        offset == IntOf(W32At(data, 20 + 16 * k))
    IN  Slice(data, offset, offset + IntOf(W32At(data, 24 + 16 * k)))
\* The required tables an input lacks: those it does not hold, and a cmap
\* without a sub-table of platform 0 or 3.
LackedTags(data) ==
    (RequiredTags \ InRangeTags(data))
    \cup {t \in {TagCmap} \cap InRangeTags(data) :
             ~HasUsableCmap(InRangeTable(data, t))}
\* The inputs FixFontDataAggressive hands to fixTrueType: not a collection,
\* and not a raw CFF that the wrap takes.
OnTrueTypePath(data) ==
    /\ Len(data) >= 4
    /\ Slice(data, 0, 4) # TtcfTag
    /\ Slice(data, 0, 3) = <<1, 0, 4>> =>
           ~WrapCFFToOTF(data).panic /\ WrapCFFToOTF(data).err

\* C15: for an input of at least 12 bytes on the TrueType path that lacks
\* a required table or whose cmap has no sub-table of platform 0 or 3,
\* FixFontDataAggressive(data, true, true) returns an sfnt whose directory
\* holds, each once, the tags of the tables of the input that lie in the
\* file and the eight required tags; a table of the input that was not
\* lacking keeps its length.
C15_RequiredTablesAdded ==
    (/\ ftOp = "FixFontDataAggressive" /\ ftFixCmap /\ ftFixName
     /\ Len(ftData) >= 12 /\ OnTrueTypePath(ftData)
     /\ LackedTags(ftData) # {}) =>
        /\ ~ftOut.panic
        /\ ftOut.ok
        /\ LET dir == SfntDirectory(ftOut.data)
           IN  /\ {dir[k].tag : k \in DOMAIN dir}
                  = InRangeTags(ftData) \cup RequiredTags
               /\ Len(dir) = Cardinality(InRangeTags(ftData) \cup RequiredTags)
               /\ \A k \in DOMAIN dir :
                      dir[k].tag \in InRangeTags(ftData) \ LackedTags(ftData)
                      => dir[k].length
                         = Len(InRangeTable(ftData, dir[k].tag))

\* A font file handed to the repair with both flags set: an sfnt, a raw
\* CFF font, or a raw CFF font cut short.
RepairInputs ==
    Sfnts \cup {RawCFF(f) : f \in CidFonts \cup OtherFonts}
    \cup Prefixes(RawCFF(PlainFont))
FtRepairInit ==
    \E data \in RepairInputs : FtIdle(data, TRUE, TRUE, EmptyMap, 0, 0)

\* FixFontDataAggressive(repaired, fixCmap, fixName): the font a repair
\* returned is handed to the repair again, with the same flags.
ftFixRepaired ==
    /\ ftOp = "FixFontDataAggressive"
    /\ ~ftOut.panic
    /\ ftOut.ok
    /\ ftData' = ftOut.data
    /\ ftOut' = FixFontDataAggressive(ftOut.data, ftFixCmap, ftFixName)
    /\ ftOp' = "FixRepaired"
    /\ UNCHANGED <<ftFixCmap, ftFixName, ftTables, ftNominal, ftDef, NotFt>>

FtRepairNext == ftFixFontDataAggressive \/ ftFixRepaired

\* C28: when FixFontDataAggressive(data, true, true) reports that it rewrote
\* the font, FixFontDataAggressive(., true, true) of the bytes it returned
\* finds no required table lacking, reports that it rewrote nothing and
\* returns those bytes.
C28_RepairIdempotent ==
    (ftOp = "FixRepaired" /\ ftFixCmap /\ ftFixName) =>
        /\ ~ftOut.panic
        /\ ~ftOut.ok
        /\ ftOut.data = ftData
        /\ LackedTags(ftData) = {}

\* A repaired TrueType font, and a wrapped CFF font, have been repaired
\* again.
C28_Witness ==
    /\ ftOp = "FixRepaired" /\ ftFixCmap /\ ftFixName
    /\ Slice(ftData, 0, 4) = U32(65536)
    /\ ~ftOut.ok /\ ftOut.data = ftData
C28_WitnessWrapped ==
    /\ ftOp = "FixRepaired" /\ ftFixCmap /\ ftFixName
    /\ Slice(ftData, 0, 4) = OTTO
    /\ TagCFF \in SfntTags(ftData)
    /\ ~ftOut.ok

\* DICTs of integer operands: the operands lie on both sides of every limit
\* of the number encoding and at both ends of the int32 range; the operators
\* are one-byte ones and escaped ones.  A DICT holds one operator with up to
\* MaxOperands operands, or up to MaxOperators operators with at most one
\* operand each.
MaxOperands == 2
MaxOperators == 2
DictIntegers ==
    {-2147483647 - 1, -32769, -32768, -1132, -1131, -364, -108, -107, 0,
     107, 108, 363, 364, 1131, 1132, 32767, 32768, 2147483647}
DictOperators == {0, 17, 27, 1200, 1455}
OperandLists(n) ==
    UNION {[1..k -> {DecInt(v) : v \in DictIntegers}] : k \in 0..n}
IntegerDicts ==
    {[o \in {op} |-> vals] : op \in DictOperators, vals \in OperandLists(MaxOperands)}
    \cup UNION {[ops -> OperandLists(1)] :
                   ops \in {s \in SUBSET DictOperators : Cardinality(s) <= MaxOperators}}

FtDictInit ==
    \E dict \in IntegerDicts : FtIdle(<<>>, FALSE, FALSE, dict, 0, 0)

\* encodeCFFDict(dict).
ftEncodeCFFDict ==
    /\ ftOp = "none"
    /\ ftData' = EncodeCFFDict(ftTables)
    /\ ftOp' = "encodeCFFDict"
    /\ UNCHANGED <<ftFixCmap, ftFixName, ftTables, ftNominal, ftDef, ftOut,
                   NotFt>>

\* parseCFFDict(data) of the bytes encodeCFFDict gave; the DICT it returns is
\* the data of the result.
ftParseCFFDict ==
    /\ ftOp = "encodeCFFDict"
    /\ ftOut' = FtResult(FALSE, TRUE, ParseCFFDict(ftData), 0)
    /\ ftOp' = "parseCFFDict"
    /\ UNCHANGED <<ftData, ftFixCmap, ftFixName, ftTables, ftNominal, ftDef,
                   NotFt>>

FtDictNext == ftEncodeCFFDict \/ ftParseCFFDict

\* The number of bytes an integer takes, and the first of them.
IntegerSize(v) ==
    IF v >= -107 /\ v <= 107 THEN 1
    ELSE IF (v >= 108 /\ v <= 1131) \/ (v >= -1131 /\ v <= -108) THEN 2
    ELSE IF v >= -32768 /\ v <= 32767 THEN 3
    ELSE 5
IntegerPrefixes(v) ==
    IF v >= -107 /\ v <= 107 THEN 32..246
    ELSE IF v >= 108 /\ v <= 1131 THEN 247..250
    ELSE IF v >= -1131 /\ v <= -108 THEN 251..254
    ELSE IF v >= -32768 /\ v <= 32767 THEN {28}
    ELSE {29}
RECURSIVE OperandsSize(_, _)
OperandsSize(vals, k) ==
    IF k > Len(vals) THEN 0
    ELSE IntegerSize(vals[k].m) + OperandsSize(vals, k + 1)
RECURSIVE DictSize(_, _)
DictSize(dict, ops) ==
    IF ops = {} THEN 0
    ELSE LET op == CHOOSE o \in ops : TRUE
         IN  OperandsSize(dict[op], 1) + (IF op >= 1200 THEN 2 ELSE 1)
             + DictSize(dict, ops \ {op})
\* The DICTs of one operator with one operand.
OneInteger == Cardinality(DOMAIN ftTables) = 1 /\ \A op \in DOMAIN ftTables : Len(ftTables[op]) = 1
TheInteger == ftTables[CHOOSE op \in DOMAIN ftTables : TRUE][1].m

\* C29: encodeCFFDict writes every integer operand in 1 byte for -107..107,
\* in 2 bytes with a first byte of 247..250 for 108..1131 and of 251..254
\* for -1131..-108, in 3 bytes with a first byte of 28 for the rest of
\* -32768..32767 and in 5 bytes with a first byte of 29 otherwise; and
\* parseCFFDict of the bytes encodeCFFDict wrote for a DICT of integer
\* operands in the int32 range is that DICT.
C29_IntegersRoundTrip ==
    /\ ftOp \in {"encodeCFFDict", "parseCFFDict"} =>
           /\ Len(ftData) = DictSize(ftTables, DOMAIN ftTables)
           /\ OneInteger =>
                  /\ ftData[1] \in IntegerPrefixes(TheInteger)
                  /\ Len(ftData) - IntegerSize(TheInteger) \in {1, 2}
    /\ ftOp = "parseCFFDict" => ftOut.data = ftTables

\* A DICT of two operators, one of them escaped, with an operand of five
\* bytes and one of two, has been encoded and read back.
C29_Witness ==
    /\ ftOp = "parseCFFDict"
    /\ DOMAIN ftTables = {17, 1200}
    /\ ftTables[17] = <<DecInt(32768)>>
    /\ ftTables[1200] = <<DecInt(-1131)>>
    /\ Len(ftData) = 10
    /\ ftOut.data = ftTables

\* CID-keyed fonts of one Font DICT laid out as header, Name INDEX, Top DICT
\* INDEX, String INDEX, Global Subr INDEX, CharStrings INDEX, Private DICT,
\* local Subr INDEX and FDArray.  The String INDEX holds one string of pad
\* bytes, which moves everything behind it; the Private DICT is one without
\* Subrs, one whose Subrs offset is written in one byte, or one whose Subrs
\* offset is written in five bytes.
MaxPad == 110
PrivateSubrs == <<248, 136, 20, 144, 19>>
PrivateSubrsWide == <<248, 136, 20>> \o Int29(9) \o <<19>>
ReturnSubrs == EncodeCFFIndex(<< <<11>> >>)
SizedTopDict(cs, fda) ==
    <<139, 139, 139, 12, 30>> \o Int29(cs) \o <<17>> \o Int29(fda) \o <<12, 36>>
SizedStrings(pad) ==
    IF pad = 0 THEN EncodeCFFIndex(<<>>)
    ELSE EncodeCFFIndex(<< [k \in 1..pad |-> 120] >>)
SizedFontAt(pad, private, subrs, cs) ==
    LET priv == cs + Len(EncodeCFFIndex(Glyphs2))
        fda == priv + Len(private) + Len(subrs)
    IN  <<1, 0, 4, 1>> \o EncodeCFFIndex(<< <<70>> >>)
        \o EncodeCFFIndex(<<SizedTopDict(cs, fda)>>)
        \o SizedStrings(pad) \o EncodeCFFIndex(<<>>)
        \o EncodeCFFIndex(Glyphs2) \o private \o subrs
        \o EncodeCFFIndex(<<Int29(Len(private)) \o Int29(priv) \o <<18>>>>)
SizedFont(pad, private, subrs) ==
    SizedFontAt(pad, private, subrs,
                4 + Len(EncodeCFFIndex(<< <<70>> >>))
                + Len(EncodeCFFIndex(<<SizedTopDict(0, 0)>>))
                + Len(SizedStrings(pad)) + Len(EncodeCFFIndex(<<>>)))
SizedPrivates ==
    {[private |-> Private500, subrs |-> <<>>],
     [private |-> PrivateSubrs, subrs |-> ReturnSubrs],
     [private |-> PrivateSubrsWide, subrs |-> ReturnSubrs]}

\* The font is the data; its Private DICT and local Subr INDEX are kept
\* beside it.
FtSanitizeInit ==
    \E pad \in 0..MaxPad, p \in SizedPrivates :
        FtIdle(SizedFont(pad, p.private, p.subrs), FALSE, FALSE,
               [private |-> p.private, subrs |-> p.subrs], 0, 0)

\* sanitizeCFF(data).
ftSanitizeCFF ==
    /\ ftOp = "none"
    /\ ftOut' = LET cff == SanitizeCFF(ftData)
                IN  FtResult(cff.panic, ~cff.panic /\ ~cff.err, cff.data, 0)
    /\ ftOp' = "sanitizeCFF"
    /\ UNCHANGED <<ftData, ftFixCmap, ftFixName, ftTables, ftNominal, ftDef,
                   NotFt>>

FtSanitizeNext == ftSanitizeCFF

\* Where the parts of the font sanitizeCFF returned lie: the INDEXes are
\* walked from the header on; the local Subr INDEX is the end of the file.
WrittenTopAt == At(ftOut.data, 2) + GetCFFIndexCount(ftOut.data, At(ftOut.data, 2)).size
WrittenStringsAt == WrittenTopAt + GetCFFIndexCount(ftOut.data, WrittenTopAt).size
WrittenGlobalSubrsAt == WrittenStringsAt + GetCFFIndexCount(ftOut.data, WrittenStringsAt).size
WrittenCharStringsAt == WrittenGlobalSubrsAt + GetCFFIndexCount(ftOut.data, WrittenGlobalSubrsAt).size
WrittenPrivateAt == WrittenCharStringsAt + GetCFFIndexCount(ftOut.data, WrittenCharStringsAt).size
WrittenSubrsAt == Len(ftOut.data) - Len(ftTables.subrs)
WrittenTopDict == ParseCFFDict(GetCFFIndexData(ftOut.data, WrittenTopAt).data)
WrittenPrivateDict == ParseCFFDict(Slice(ftOut.data, WrittenPrivateAt, WrittenSubrsAt))
Sanitized == ftOp = "sanitizeCFF" /\ ftOut.ok

\* The three relocated offsets, each at its target.
CharStringsAtTarget ==
    WrittenTopDict[17] = <<DecInt(WrittenCharStringsAt)>>
PrivateAtTarget ==
    WrittenTopDict[18] = <<DecInt(WrittenSubrsAt - WrittenPrivateAt), DecInt(WrittenPrivateAt)>>
SubrsAtTarget ==
    ftTables.subrs # <<>> =>
        /\ WrittenPrivateDict[19] = <<DecInt(WrittenSubrsAt - WrittenPrivateAt)>>
        /\ Slice(ftOut.data, WrittenSubrsAt, Len(ftOut.data)) = ftTables.subrs

\* C30: in the font sanitizeCFF returns for a CID font of one Font DICT, the
\* CharStrings operand of the Top DICT is the position of the CharStrings
\* INDEX, the Private operands of the Top DICT are the length and the
\* position of the Private DICT, and the Subrs operand of the Private DICT
\* is the distance from the Private DICT to the local Subr INDEX, whatever
\* the sizes of the font.
C30_OffsetsAtTargets ==
    Sanitized => CharStringsAtTarget /\ PrivateAtTarget /\ SubrsAtTarget

\* Every font is sanitized; the CharStrings INDEX is written as it came, and
\* the Private DICT with its operators in ascending order.
C30_PartsWritten ==
    ftOp = "sanitizeCFF" =>
        /\ ftOut.ok
        /\ Slice(ftOut.data, WrittenCharStringsAt, WrittenPrivateAt) = EncodeCFFIndex(Glyphs2)
        /\ DOMAIN WrittenPrivateDict = DOMAIN ParseCFFDict(ftTables.private)
        /\ \A op \in DOMAIN WrittenPrivateDict \ {19} :
               WrittenPrivateDict[op] = ParseCFFDict(ftTables.private)[op]

\* The Top DICT that is written has the size of the one that was laid out
\* first, and the Private DICT the size it came with.
TopDictKeptSize ==
    LET cs == WrittenTopDict[17][1].m
        priv == WrittenTopDict[18][2].m
    IN  \A limit \in {108, 1132} :
            /\ (cs < limit) = (cs + 6 < limit)
            /\ (priv < limit) = (priv + 6 < limit)
PrivateKeptSize == WrittenSubrsAt - WrittenPrivateAt = Len(ftTables.private)

\* The offsets are at their targets in the fonts whose Top DICT and Private
\* DICT keep their sizes.
C30_OffsetsAtTargetsSameSize ==
    (Sanitized /\ TopDictKeptSize /\ PrivateKeptSize) =>
        CharStringsAtTarget /\ PrivateAtTarget /\ SubrsAtTarget

\* The offsets that miss: the Top DICT ones, by the bytes the Top DICT lost
\* when it was encoded again; the Subrs one, by the bytes the Private DICT
\* lost.
C30_TopDictMisses ==
    Sanitized /\ ~(CharStringsAtTarget /\ PrivateAtTarget) /\ PrivateKeptSize
C30_SubrsMisses ==
    Sanitized /\ CharStringsAtTarget /\ PrivateAtTarget /\ ~SubrsAtTarget

\* Raw CFF data.
FtWrapInit ==
    \E data \in RawCFFs : FtIdle(data, FALSE, FALSE, EmptyMap, 0, 0)

\* wrapCFFToOTF(cffData).
ftWrapCFFToOTF ==
    /\ ftOp = "none"
    /\ ftOut' = LET otf == WrapCFFToOTF(ftData)
                IN  FtResult(otf.panic, ~otf.panic /\ ~otf.err, otf.data, 0)
    /\ ftOp' = "wrapCFFToOTF"
    /\ UNCHANGED <<ftData, ftFixCmap, ftFixName, ftTables, ftNominal, ftDef,
                   NotFt>>

FtWrapNext == ftWrapCFFToOTF

\* C17: the output of wrapCFFToOTF for raw CFF data it accepts starts with
\* the bytes "OTTO", and its directory is of nine entries whose tags are,
\* in this order, "CFF ", "OS/2", "cmap", "head", "hhea", "hmtx", "maxp",
\* "name" and "post": the nine tables, each once, in ascending order of the
\* bytes of the tags.
C17_NineTablesInTagOrder ==
    ftOp = "wrapCFFToOTF" /\ ftOut.ok =>
        /\ Slice(ftOut.data, 0, 4) = OTTO
        /\ Uint16At(ftOut.data, 4) = 9
        /\ [k \in 1..9 |-> SfntDirectory(ftOut.data)[k].tag]
           = <<TagCFF, TagOS2, TagCmap, TagHead, TagHhea, TagHmtx, TagMaxp,
               TagName, TagPost>>

\* A CID-keyed font was wrapped.
C17_Witness ==
    /\ ftOp = "wrapCFFToOTF"
    /\ ftOut.ok
    /\ ftData = RawCFF(CidFont(<<>>, ScaleMatrix(Dec(5, -1))))
    /\ Slice(ftOut.data, 0, 4) = OTTO
    /\ Uint16At(ftOut.data, 4) = 9

\* The unitsPerEm field of the head table of an sfnt.
HeadUnitsPerEm(out) == Uint16At(out, SfntEntry(out, TagHead).offset + 18)

\* The FontMatrix operands of a Top DICT that are not six, or whose first,
\* s, is positive with 1/s a whole number of at most 32767.
WholeUnits(topMatrix) ==
    Len(topMatrix) = 6 =>
        /\ topMatrix[1].m > 0
        /\ 10 ^ (0 - topMatrix[1].e) % topMatrix[1].m = 0
        /\ 10 ^ (0 - topMatrix[1].e) \div topMatrix[1].m <= 32767

\* The unitsPerEm of the wrap of the CID-keyed font of one Font DICT with
\* these FontMatrix operands in its Top DICT and its Font DICT.
WrappedUnitsPerEm(topMatrix, fdMatrix) ==
    HeadUnitsPerEm(WrapCFFToOTF(RawCFF(CidFont(topMatrix, fdMatrix))).data)

\* C18 as stated: for a CID-keyed font of one Font DICT whose FontMatrix is
\* 0.5 I, the unitsPerEm of the head table of the wrapped font is half the
\* unitsPerEm of the same font with the identity as FontMatrix of the Font
\* DICT.
C18_HalfOfIdentity ==
    \A t \in TopMatrices :
        ftOp = "wrapCFFToOTF"
        /\ ftData = RawCFF(CidFont(t, ScaleMatrix(Dec(5, -1)))) =>
            /\ ftOut.ok
            /\ 2 * HeadUnitsPerEm(ftOut.data)
               = WrappedUnitsPerEm(t, ScaleMatrix(DecInt(1)))

\* C18, amended: for a CID-keyed font of one Font DICT whose FontMatrix is
\* 0.5 I, the unitsPerEm of the head table of the wrapped font is twice the
\* unitsPerEm of the same font with the identity as FontMatrix of the Font
\* DICT, when the Top DICT has no FontMatrix of six operands or one whose
\* first operand s is positive with 1/s a whole number of at most 32767.
C18_TwiceIdentity ==
    \A t \in {m \in TopMatrices : WholeUnits(m)} :
        ftOp = "wrapCFFToOTF"
        /\ ftData = RawCFF(CidFont(t, ScaleMatrix(Dec(5, -1)))) =>
            /\ ftOut.ok
            /\ HeadUnitsPerEm(ftOut.data)
               = 2 * WrappedUnitsPerEm(t, ScaleMatrix(DecInt(1)))

\* The font whose Top DICT scales by 0.00004 and whose Font DICT scales by
\* 0.5 was wrapped with 50000 units per em.
C18_Witness ==
    /\ ftOp = "wrapCFFToOTF"
    /\ ftData = RawCFF(CidFont(ScaleMatrix(Dec(4, -5)),
                               ScaleMatrix(Dec(5, -1))))
    /\ HeadUnitsPerEm(ftOut.data) = 50000

(***************************************************************************)
(* Page geometry: Matrix, NewMatrix, parseFloats, buildPath, renderPath    *)
(* and the pen of renderText                                               *)
(***************************************************************************)

\* Deepest nesting of coordinate systems around a point: the composite
\* graphic units around an object, and the object itself.
MaxNest == 2

\* A float64 whose value is the whole number h * 2^53 + l, with l small.
\* The flag x is raised on the result of a sum or product that was rounded
\* and stays raised on what is computed from it; the equality of float64
\* values reads h and l only.
F(h, l) == [h |-> h, l |-> l, x |-> FALSE]
Whole(n) == F(0, n)
Big(h, l) == F(h, l)
SameFloat(a, b) == a.h = b.h /\ a.l = b.l

\* The largest power of two that is at most n, for n >= 1.
RECURSIVE Pow2Below(_)
Pow2Below(n) == IF n < 2 THEN 1 ELSE 2 * Pow2Below(n \div 2)

\* The distance between neighbouring float64 values at h * 2^53 + l: the
\* significand has 53 bits, so it is 1 below 2^53, 2 from there to 2^54, 4
\* from there to 2^55, and so on.
Spacing(h, l) ==
    LET hh == IF h > 0 THEN (IF l < 0 THEN h - 1 ELSE h)
              ELSE IF h < 0 THEN (IF l > 0 THEN (-h) - 1 ELSE -h)
              ELSE 0
    IN  IF hh = 0 THEN 1 ELSE 2 * Pow2Below(hh)

\* l rounded to the nearest multiple of s, a tie to the even multiple.
RoundToEven(l, s) ==
    LET q == l \div s
        r == l % s
    IN  IF 2 * r < s THEN q * s
        ELSE IF 2 * r > s THEN (q + 1) * s
        ELSE IF q % 2 = 0 THEN q * s ELSE (q + 1) * s

\* The float64 nearest to h * 2^53 + l.
Float64(h, l) ==
    LET r == RoundToEven(l, Spacing(h, l))
    IN  [h |-> h, l |-> r, x |-> r # l]

\* a + b and a * b of float64 values.  A product is taken of values of
\* which one is below 2^53.  Go may compute x*y + z with one rounding on
\* some targets; the matrices used here have entries -1, 0, 1 and 2 in the
\* places that are multiplied, so that every product is exact and the one
\* rounding and the two give the same value.
FAdd(a, b) ==
    LET v == Float64(a.h + b.h, a.l + b.l)
    IN  [v EXCEPT !.x = @ \/ a.x \/ b.x]
FMul(a, b) ==
    LET v == IF a.h = 0 THEN Float64(a.l * b.h, a.l * b.l)
             ELSE Float64(b.l * a.h, b.l * a.l)
    IN  [v EXCEPT !.x = @ \/ a.x \/ b.x]

\* Matrix and a point (x, y).
Mat(a, b, c, d, e, f) == [a |-> a, b |-> b, c |-> c, d |-> d, e |-> e, f |-> f]
Pt(x, y) == [x |-> x, y |-> y]
SameMatrix(m, o) ==
    /\ SameFloat(m.a, o.a) /\ SameFloat(m.b, o.b) /\ SameFloat(m.c, o.c)
    /\ SameFloat(m.d, o.d) /\ SameFloat(m.e, o.e) /\ SameFloat(m.f, o.f)
SamePoint(p, q) == SameFloat(p.x, q.x) /\ SameFloat(p.y, q.y)
RoundedPoint(p) == p.x.x \/ p.y.x

IdentityMatrix ==
    Mat(Whole(1), Whole(0), Whole(0), Whole(1), Whole(0), Whole(0))

\* NewMatrix, from the list parseFloats(s) gave for the CTM attribute s.
NewMatrix(floats) ==
    IF Len(floats) # 6 THEN IdentityMatrix
    ELSE Mat(floats[1], floats[2], floats[3], floats[4], floats[5], floats[6])

\* Matrix.Multiply (m * o), with the operands taken in the order of the
\* operator: the mutant.
MultiplySwapped(m, o) ==
    Mat(FAdd(FMul(o.a, m.a), FMul(o.c, m.b)),
        FAdd(FMul(o.b, m.a), FMul(o.d, m.b)),
        FAdd(FMul(o.a, m.c), FMul(o.c, m.d)),
        FAdd(FMul(o.b, m.c), FMul(o.d, m.d)),
        FAdd(FAdd(FMul(o.a, m.e), FMul(o.c, m.f)), o.e),
        FAdd(FAdd(FMul(o.b, m.e), FMul(o.d, m.f)), o.f))
Multiply(m, o) ==
    Mat(FAdd(FMul(m.a, o.a), FMul(m.c, o.b)),
        FAdd(FMul(m.b, o.a), FMul(m.d, o.b)),
        FAdd(FMul(m.a, o.c), FMul(m.c, o.d)),
        FAdd(FMul(m.b, o.c), FMul(m.d, o.d)),
        FAdd(FAdd(FMul(m.a, o.e), FMul(m.c, o.f)), m.e),
        FAdd(FAdd(FMul(m.b, o.e), FMul(m.d, o.f)), m.f))

\* Matrix.Transform, and the one that leaves the translation out.
TransformLinear(m, p) ==
    Pt(FAdd(FMul(m.a, p.x), FMul(m.c, p.y)),
       FAdd(FMul(m.b, p.x), FMul(m.d, p.y)))
Transform(m, p) ==
    Pt(FAdd(FAdd(FMul(m.a, p.x), FMul(m.c, p.y)), m.e),
       FAdd(FAdd(FMul(m.b, p.x), FMul(m.d, p.y)), m.f))

\* The CTM of an object under the composite graphic units around it: ctms
\* are the parsed CTM attributes, outermost first and the object's own
\* last.  The outermost is met with parentCTM = nil and taken as it is;
\* each one below is parentCTM.Multiply(NewMatrix(CTM)).
RECURSIVE EffectiveCTM(_, _)
EffectiveCTM(ctms, n) ==
    IF n = 1 THEN NewMatrix(ctms[1])
    ELSE Multiply(EffectiveCTM(ctms, n - 1), NewMatrix(ctms[n]))

\* The point p mapped by the first n coordinate systems one after the
\* other, the innermost first.
RECURSIVE AppliedInTurn(_, _, _)
AppliedInTurn(ctms, n, p) ==
    IF n = 0 THEN p
    ELSE AppliedInTurn(ctms, n - 1, Transform(NewMatrix(ctms[n]), p))

\* The CTM attributes of the documents, as parseFloats gives them: the unit
\* matrix, a scaling, a quarter turn, a reflection, a shear, shifts by 1, by
\* 2^53 and by -2^53, an attribute of five numbers, and none.
CTMLists ==
    LET w(a, b, c, d, e, f) ==
            <<Whole(a), Whole(b), Whole(c), Whole(d), e, f>>
    IN  {w(1, 0, 0, 1, Whole(0), Whole(0)),
         w(2, 0, 0, 2, Whole(0), Whole(0)),
         w(0, 1, -1, 0, Whole(0), Whole(0)),
         w(1, 0, 0, -1, Whole(0), Whole(3)),
         w(1, 0, 1, 1, Whole(0), Whole(0)),
         w(1, 0, 0, 1, Whole(1), Whole(0)),
         w(1, 0, 0, 1, Big(1, 0), Whole(0)),
         w(1, 0, 0, 1, Big(-1, 0), Whole(1)),
         w(2, 0, 0, 1, Whole(5), Big(1, 2)),
         <<Whole(1), Whole(0), Whole(0), Whole(1), Whole(0)>>,
         <<>>}

Coordinates == {Whole(0), Whole(1), Whole(-3), Big(1, 0)}
Points == {Pt(x, y) : x, y \in Coordinates}

RECURSIVE SeqsOf(_, _)
SeqsOf(S, n) ==
    IF n = 0 THEN {<<>>}
    ELSE LET rest == SeqsOf(S, n - 1)
         IN  rest \cup {Append(s, v) : s \in {r \in rest : Len(r) = n - 1},
                                       v \in S}

GmIdle(in) == gmIn = in /\ gmOp = "none" /\ gmOut = <<>>

\* A point of an object is mapped to the page: the CTMs around it are
\* composed on the way down and the point is transformed by the result.
GmMatrixInit ==
    \E ctms \in SeqsOf(CTMLists, MaxNest) \ {<<>>}, p \in Points :
        GmIdle([ctms |-> ctms, p |-> p])

gmTransform ==
    /\ gmOp = "none"
    /\ gmOut' = LET ctm == EffectiveCTM(gmIn.ctms, Len(gmIn.ctms))
                IN  [ctm |-> ctm, at |-> Transform(ctm, gmIn.p)]
    /\ gmOp' = "Transform"
    /\ UNCHANGED <<gmIn, NotGm>>

GmMatrixNext == gmTransform

\* C21: a point under nested coordinate systems is mapped as if each CTM
\* were applied in turn, the innermost first and the outermost last; for two
\* of them, A.Multiply(B).Transform(p) = A.Transform(B.Transform(p)).
C21_ComposedAsApplied ==
    gmOp = "Transform" =>
        SamePoint(gmOut.at, AppliedInTurn(gmIn.ctms, Len(gmIn.ctms), gmIn.p))

\* C21, amended: the same, when no sum and no product on either side was
\* rounded.
C21_ComposedAsAppliedUnrounded ==
    LET applied == AppliedInTurn(gmIn.ctms, Len(gmIn.ctms), gmIn.p)
    IN  gmOp = "Transform" /\ ~RoundedPoint(gmOut.at) /\ ~RoundedPoint(applied)
            => SamePoint(gmOut.at, applied)

\* Two CTMs that do not commute, composed without rounding: the point is
\* moved by the inner one first.
C21_Witness ==
    /\ gmOp = "Transform"
    /\ Len(gmIn.ctms) = 2
    /\ NewMatrix(gmIn.ctms[1]) = Mat(Whole(2), Whole(0), Whole(0), Whole(2), Whole(0), Whole(0))
    /\ NewMatrix(gmIn.ctms[2]) = Mat(Whole(1), Whole(0), Whole(0), Whole(1), Whole(1), Whole(0))
    /\ gmIn.p = Pt(Whole(1), Whole(1))
    /\ ~RoundedPoint(gmOut.at)
    /\ SamePoint(gmOut.at, Pt(Whole(4), Whole(2)))

\* C22: a matrix maps the point as the unit matrix does if and only if it
\* is the unit matrix.
C22_AgreesAtPointIffIdentity ==
    gmOp = "Transform" =>
        (SamePoint(gmOut.at, Transform(IdentityMatrix, gmIn.p))
            <=> SameMatrix(gmOut.ctm, IdentityMatrix))

\* C22, amended: a matrix maps every point as the unit matrix does if and
\* only if it is the unit matrix.
C22_AgreesEverywhereIffIdentity ==
    gmOp = "Transform" =>
        ((\A p \in Points : SamePoint(Transform(gmOut.ctm, p),
                                      Transform(IdentityMatrix, p)))
            <=> SameMatrix(gmOut.ctm, IdentityMatrix))

\* A scaling by 2 leaves the origin where the unit matrix leaves it, and
\* moves the point (1, 0).
C22_Witness ==
    /\ gmOp = "Transform"
    /\ ~SameMatrix(gmOut.ctm, IdentityMatrix)
    /\ gmIn.p = Pt(Whole(0), Whole(0))
    /\ SamePoint(gmOut.at, Transform(IdentityMatrix, gmIn.p))
    /\ ~SamePoint(Transform(gmOut.ctm, Pt(Whole(1), Whole(0))),
                  Transform(IdentityMatrix, Pt(Whole(1), Whole(0))))

\* A string is the sequence of its characters.

\* strings.Fields: the maximal runs of characters other than white space,
\* from position i on; cur is the run being read.
RECURSIVE FieldsFrom(_, _, _)
FieldsFrom(s, i, cur) ==
    IF i > Len(s) THEN (IF cur = <<>> THEN <<>> ELSE <<cur>>)
    ELSE IF s[i] = " "
         THEN (IF cur = <<>> THEN <<>> ELSE <<cur>>) \o FieldsFrom(s, i + 1, <<>>)
         ELSE FieldsFrom(s, i + 1, Append(cur, s[i]))
StringFields(s) == FieldsFrom(s, 1, <<>>)

\* strings.ReplaceAll(s, ",", " ").
CommasToSpaces(s) == [k \in 1..Len(s) |-> IF s[k] = "," THEN " " ELSE s[k]]

\* strconv.Atoi with its error dropped: an optional sign and digits; 0 for
\* any other text.
AtoiText(p) ==
    LET signed == p # <<>> /\ p[1] \in {"-", "+"}
        digits == IF signed THEN Tail(p) ELSE p
    IN  IF digits # <<>> /\ \A k \in 1..Len(digits) : IsDigit(digits[k])
        THEN (IF p[1] = "-" THEN -1 ELSE 1) * DigitsValue(digits)
        ELSE 0

\* The loop of parseFloatsWithG from parts[i] on.
RECURSIVE FloatsWithGFrom(_, _, _, _, _)
FloatsWithGFrom(parts, i, result, gFlag, gCount) ==
    IF i > Len(parts) THEN result
    ELSE LET p == parts[i]
             f == ParseRealText(p)
         IN  IF p = <<"g">>
             THEN FloatsWithGFrom(parts, i + 1, result, TRUE, gCount)
             ELSE IF gFlag
             THEN FloatsWithGFrom(parts, i + 1, result, FALSE, AtoiText(p))
             ELSE IF gCount > 0
             THEN FloatsWithGFrom(parts, i + 1,
                      result \o [j \in 1..gCount |-> f.v], FALSE, 0)
             ELSE FloatsWithGFrom(parts, i + 1,
                      IF f.ok THEN Append(result, f.v) ELSE result,
                      FALSE, gCount)

\* parseFloatsWithG.
ParseFloatsWithG(s) == FloatsWithGFrom(StringFields(s), 1, <<>>, FALSE, 0)

\* The loop of parseFloats from parts[i] on.
RECURSIVE FloatsFrom(_, _)
FloatsFrom(parts, i) ==
    IF i > Len(parts) THEN <<>>
    ELSE LET f == ParseRealText(parts[i])
         IN  (IF f.ok THEN <<f.v>> ELSE <<>>) \o FloatsFrom(parts, i + 1)

\* parseFloats.
ParseFloats(s) ==
    IF s = <<>> THEN <<>>
    ELSE IF \E k \in 1..Len(s) : s[k] = "g" THEN ParseFloatsWithG(s)
    ELSE FloatsFrom(StringFields(CommasToSpaces(s)), 1)

\* Largest number of items of a number list.
MaxItems == 3

\* The items of the number lists of the documents: a number, or a group
\* "g N V"; each with its text, and what it stands for.
NumberTexts ==
    {[text |-> <<"1">>, v |-> DecInt(1)],
     [text |-> <<"0", ".", "5">>, v |-> Dec(5, -1)],
     [text |-> <<"-", "2", "0">>, v |-> DecInt(-20)]}
CountTexts ==
    {[text |-> <<"0">>, n |-> 0], [text |-> <<"1">>, n |-> 1],
     [text |-> <<"3">>, n |-> 3], [text |-> <<"1", "2">>, n |-> 12]}
ListItems ==
    {[group |-> FALSE, n |-> 1, text |-> t.text, v |-> t.v] : t \in NumberTexts}
    \cup {[group |-> TRUE, n |-> c.n, v |-> t.v,
           text |-> <<"g", " ">> \o c.text \o <<" ">> \o t.text] :
          c \in CountTexts, t \in {x \in NumberTexts : x.v # DecInt(-20)}}
Separators == {<<" ">>, <<",">>, <<",", " ">>, <<" ", " ">>}

\* The text of the items with sep between them.
RECURSIVE ListText(_, _, _)
ListText(items, i, sep) ==
    IF i > Len(items) THEN <<>>
    ELSE items[i].text
         \o (IF i < Len(items) THEN sep ELSE <<>>)
         \o ListText(items, i + 1, sep)

\* What the items stand for: each number once, each group as n copies of its
\* value, in place.
RECURSIVE Expansion(_, _)
Expansion(items, i) ==
    IF i > Len(items) THEN <<>>
    ELSE [j \in 1..items[i].n |-> items[i].v] \o Expansion(items, i + 1)

HasGroup(items) == \E i \in 1..Len(items) : items[i].group
HasComma(sep) == \E k \in 1..Len(sep) : sep[k] = ","

\* Other attribute values: not lists of numbers and groups.
OtherTexts ==
    {<<" ">>, <<"g">>, <<"g", " ", "2">>, <<"x", " ", "1">>,
     <<"1", ".", "2", ".", "3", " ", "2">>, <<"g", "3", " ", "1">>,
     <<"g", " ", "g", " ", "2", " ", "1">>, <<"g", " ", "2", " ", "x">>,
     <<"g", " ", "-", "2", " ", "1", " ", "3">>,
     <<"g", " ", "2", " ", "1", ",", " ", "3">>}

GmFloatsInit ==
    \/ \E items \in SeqsOf(ListItems, MaxItems), sep \in Separators :
           /\ HasGroup(items) => ~HasComma(sep)
           /\ GmIdle([s |-> ListText(items, 1, sep), items |-> items,
                      list |-> TRUE])
    \/ \E s \in OtherTexts : GmIdle([s |-> s, items |-> <<>>, list |-> FALSE])

gmParseFloats ==
    /\ gmOp = "none"
    /\ gmOut' = ParseFloats(gmIn.s)
    /\ gmOp' = "parseFloats"
    /\ UNCHANGED <<gmIn, NotGm>>

GmFloatsNext == gmParseFloats

\* C23: a list of numbers and groups "g N V", N >= 0, parses to the numbers
\* in order with every group expanded in place into N copies of V; commas
\* and white space separate the numbers of a list without "g"; the empty
\* string parses to the empty list.
C23_GroupsExpanded ==
    gmOp = "parseFloats" /\ gmIn.list => gmOut = Expansion(gmIn.items, 1)

\* The same for the lists in which no group has the count 0.
C23_PositiveGroupsExpanded ==
    gmOp = "parseFloats" /\ gmIn.list
        /\ (\A i \in 1..Len(gmIn.items) : gmIn.items[i].n > 0)
        => gmOut = Expansion(gmIn.items, 1)

\* Largest number of runes of a TextCode.
MaxRunes == 3

\* face.TextWidth(str) of the one-rune string str: the measured advance of
\* the glyph.
TextWidth(run) == IF run = "i" THEN DecInt(1) ELSE DecInt(3)

\* The pen position renderText gives the rune of index i (from 0) of a
\* TextCode: cx and cy before the step are the position of the rune before
\* it, or the start position when i = 0.  PenXDeltaFirst is the pen x that
\* asks DeltaX before X.
PenXDeltaFirst(cx, i, run, xs, dxs, dys) ==
    IF i > 0 /\ i - 1 < Len(dxs) THEN DecAdd(cx, dxs[i])
    ELSE IF i < Len(xs) THEN xs[i + 1]
    ELSE IF i > 0 /\ Len(dys) = 0 THEN DecAdd(cx, TextWidth(run))
    ELSE cx
PenX(cx, i, run, xs, dxs, dys) ==
    IF i < Len(xs) THEN xs[i + 1]
    ELSE IF i > 0
         THEN IF i - 1 < Len(dxs) THEN DecAdd(cx, dxs[i])
              ELSE IF Len(dys) = 0 THEN DecAdd(cx, TextWidth(run))
              ELSE cx
         ELSE cx

\* The pen y, and the pen y that advances by the glyph when there is no
\* DeltaX.
PenYAdvancing(cy, i, run, ys, dxs, dys) ==
    IF i < Len(ys) THEN ys[i + 1]
    ELSE IF i > 0
         THEN IF i - 1 < Len(dys) THEN DecAdd(cy, dys[i])
              ELSE IF Len(dxs) = 0 THEN DecAdd(cy, TextWidth(run))
              ELSE cy
         ELSE cy
PenY(cy, i, run, ys, dxs, dys) ==
    IF i < Len(ys) THEN ys[i + 1]
    ELSE IF i > 0 /\ i - 1 < Len(dys) THEN DecAdd(cy, dys[i])
    ELSE cy

\* The rune loop of one TextCode from the rune of index i on: the pen
\* positions handed to ctm.Transform, in order.
RECURSIVE PensFrom(_, _, _, _, _, _, _, _)
PensFrom(runes, i, cx, cy, xs, ys, dxs, dys) ==
    IF i >= Len(runes) THEN <<>>
    ELSE <<[x |-> PenX(cx, i, runes[i + 1], xs, dxs, dys), y |-> PenY(cy, i, runes[i + 1], ys, dxs, dys)]>>
         \o PensFrom(runes, i + 1, PenX(cx, i, runes[i + 1], xs, dxs, dys), PenY(cy, i, runes[i + 1], ys, dxs, dys), xs, ys, dxs, dys)

\* The body of the TextCode loop, with the four lists parsed.
PensOf(runes, xs, ys, dxs, dys) ==
    PensFrom(runes, 0, IF Len(xs) > 0 THEN xs[1] ELSE DecInt(0),
             IF Len(ys) > 0 THEN ys[1] ELSE DecInt(0), xs, ys, dxs, dys)
TextCodePens(tc) ==
    PensOf(Runes(tc), ParseFloats(tc.X), ParseFloats(tc.Y),
           ParseFloats(tc.DeltaX), ParseFloats(tc.DeltaY))

\* The TextCode elements of the documents.
RuneLists == SeqsOf({"i", "W"}, MaxRunes)
XTexts == {<<>>, <<"5">>, <<"5", " ", "7">>, <<"g", " ", "3", " ", "1">>}
YTexts == {<<>>, <<"4">>, <<"4", " ", "0", ".", "5">>}
DeltaXTexts ==
    {<<>>, <<"2">>, <<"g", " ", "2", " ", "2">>, <<"2", ",", "0", ".", "5">>}
DeltaYTexts == {<<>>, <<"1">>, <<"1", " ", "-", "2">>}
TextCodes ==
    {[Value |-> v, Index |-> <<>>, X |-> x, Y |-> y, DeltaX |-> dx,
      DeltaY |-> dy] :
     v \in RuneLists, x \in XTexts, y \in YTexts, dx \in DeltaXTexts,
     dy \in DeltaYTexts}
LastTextCodes ==
    {[Value |-> <<"W", "i">>, Index |-> <<>>, X |-> <<>>, Y |-> <<>>,
      DeltaX |-> <<>>, DeltaY |-> <<>>],
     [Value |-> <<"i">>, Index |-> <<"W", "W">>, X |-> <<"7">>, Y |-> <<>>,
      DeltaX |-> <<>>, DeltaY |-> <<"1">>]}

\* renderText runs the TextCode loop over obj.TextCode; every TextCode
\* starts its own pen.
GmTextInit ==
    \E tc \in TextCodes, more \in {<<>>} \cup {<<t>> : t \in LastTextCodes} :
        GmIdle([TextCode |-> <<tc>> \o more])

gmRenderText ==
    /\ gmOp = "none"
    /\ gmOut' = [k \in 1..Len(gmIn.TextCode) |-> TextCodePens(gmIn.TextCode[k])]
    /\ gmOp' = "renderText"
    /\ UNCHANGED <<gmIn, NotGm>>

GmTextNext == gmRenderText

\* The pen of rune i (from 0) of the k-th TextCode, and the lists of it.
PenOf(k, i) == gmOut[k][i + 1]
XsOf(k) == ParseFloats(gmIn.TextCode[k].X)
YsOf(k) == ParseFloats(gmIn.TextCode[k].Y)
DxsOf(k) == ParseFloats(gmIn.TextCode[k].DeltaX)
DysOf(k) == ParseFloats(gmIn.TextCode[k].DeltaY)
RunesOf(k) == Runes(gmIn.TextCode[k])

\* C24: in every TextCode the pen x of rune 0 is X[0] if present and 0
\* otherwise; that of rune i >= 1 is X[i] when X has an entry at i, else the
\* pen x before it plus DeltaX[i-1] when that entry exists, else the pen x
\* before it plus the measured advance of the glyph when DeltaY is empty,
\* else the pen x before it.
C24_PenX ==
    gmOp = "renderText" =>
        \A k \in 1..Len(gmIn.TextCode) :
            /\ Len(gmOut[k]) = Len(RunesOf(k))
            /\ \A i \in 0..(Len(RunesOf(k)) - 1) :
                   PenOf(k, i).x =
                       IF i < Len(XsOf(k)) THEN XsOf(k)[i + 1]
                       ELSE IF i = 0 THEN DecInt(0)
                       ELSE IF i - 1 < Len(DxsOf(k))
                       THEN DecAdd(PenOf(k, i - 1).x, DxsOf(k)[i])
                       ELSE IF DysOf(k) = <<>>
                       THEN DecAdd(PenOf(k, i - 1).x, TextWidth(RunesOf(k)[i + 1]))
                       ELSE PenOf(k, i - 1).x

\* A TextCode of three runes with X of one entry and DeltaX of one entry:
\* the pen x is X[0], then X[0] + DeltaX[0], then that plus the advance.
C24_Witness ==
    /\ gmOp = "renderText"
    /\ gmIn.TextCode[1].Value = <<"i", "W", "i">>
    /\ XsOf(1) = <<DecInt(5)>>
    /\ DxsOf(1) = <<DecInt(2)>>
    /\ DysOf(1) = <<>>
    /\ PenOf(1, 0).x = DecInt(5)
    /\ PenOf(1, 1).x = DecInt(7)
    /\ PenOf(1, 2).x = DecInt(8)

\* C25: the pen y follows the same rule with a third level: that of rune
\* i >= 1 is Y[i] when present, else the pen y before it plus DeltaY[i-1]
\* when that entry exists, else the pen y before it plus the measured
\* advance of the glyph when there is no DeltaX.
C25_PenYSymmetric ==
    gmOp = "renderText" =>
        \A k \in 1..Len(gmIn.TextCode) :
            \A i \in 1..(Len(RunesOf(k)) - 1) :
                PenOf(k, i).y =
                    IF i < Len(YsOf(k)) THEN YsOf(k)[i + 1]
                    ELSE IF i - 1 < Len(DysOf(k))
                    THEN DecAdd(PenOf(k, i - 1).y, DysOf(k)[i])
                    ELSE IF DxsOf(k) = <<>>
                    THEN DecAdd(PenOf(k, i - 1).y, TextWidth(RunesOf(k)[i + 1]))
                    ELSE PenOf(k, i - 1).y

\* C25, amended: the pen y of rune i >= 1 is Y[i] when present, else the
\* pen y before it plus DeltaY[i-1] when that entry exists, else the pen y
\* before it.
C25_PenY ==
    gmOp = "renderText" =>
        \A k \in 1..Len(gmIn.TextCode) :
            \A i \in 1..(Len(RunesOf(k)) - 1) :
                PenOf(k, i).y =
                    IF i < Len(YsOf(k)) THEN YsOf(k)[i + 1]
                    ELSE IF i - 1 < Len(DysOf(k))
                    THEN DecAdd(PenOf(k, i - 1).y, DysOf(k)[i])
                    ELSE PenOf(k, i - 1).y

\* A TextCode of three runes with Y of one entry, DeltaY of one entry and
\* no DeltaX: the pen y is Y[0], then Y[0] + DeltaY[0], and stays there.
C25_Witness ==
    /\ gmOp = "renderText"
    /\ Len(gmIn.TextCode[1].Value) = 3
    /\ YsOf(1) = <<DecInt(4)>>
    /\ DysOf(1) = <<DecInt(1)>>
    /\ DxsOf(1) = <<>>
    /\ PenOf(1, 0).y = DecInt(4)
    /\ PenOf(1, 1).y = DecInt(5)
    /\ PenOf(1, 2).y = DecInt(5)

\* Largest number of segments of the AbbreviatedData of a path.
MaxSegs == 3

\* -a and a - b of float64 values.
FNeg(a) == [a EXCEPT !.h = 0 - a.h, !.l = 0 - a.l]
FSub(a, b) == FAdd(a, FNeg(b))

\* strconv.ParseBool with its error dropped.
ParseBool(tok) == tok \in {"1", "t", "T", "TRUE", "true", "True"}

\* math.Hypot(a, c) and math.Atan2(b, a) * 180 / math.Pi for the entries of
\* a CTM that scales, reflects or turns by quarter turns: one of the two
\* arguments is 0.
Hypot(a, c) ==
    CASE a.l = 0 -> Whole(IF c.l < 0 THEN 0 - c.l ELSE c.l)
      [] c.l = 0 -> Whole(IF a.l < 0 THEN 0 - a.l ELSE a.l)
RotationDegrees(b, a) ==
    CASE b.l = 0 /\ a.l >= 0 -> Whole(0)
      [] b.l = 0 /\ a.l < 0 -> Whole(180)
      [] b.l > 0 /\ a.l = 0 -> Whole(90)
      [] b.l < 0 /\ a.l = 0 -> Whole(-90)

\* The canvas point of the path point (x, y): ctm.Transform(x, y), moved by
\* the Boundary and measured from the page's top.
CanvasPoint(ctm, x, y, bx, by, pageH) ==
    Pt(FAdd(Transform(ctm, Pt(Whole(x), Whole(y))).x, bx),
       FSub(pageH, FAdd(Transform(ctm, Pt(Whole(x), Whole(y))).y, by)))

\* The operand counts of the operators, and the path call of each.
OperandCount == [M |-> 2, S |-> 2, L |-> 2, B |-> 6, Q |-> 4, A |-> 7]
PathCall ==
    [M |-> "MoveTo", S |-> "MoveTo", L |-> "LineTo", B |-> "CubeTo",
     Q |-> "QuadTo", A |-> "ArcTo", C |-> "Close"]

\* The test an operator makes before it reads its k operands, tokens[i] to
\* tokens[i+k-1] (i from 0): i+k-1 < len(tokens).
HasOperands(tokens, i, k) == i + k - 1 < Len(tokens)

\* tokens[i] (i from 0) read as a number.
NumberAt(tokens, i) == ParseFloat(tokens[i + 1])

\* The call an operator makes on the path, its operands at tokens[i] on.
PathOp(cmd, tokens, i, ctm, bx, by, pageH) ==
    CASE cmd \in {"M", "S", "L"} ->
             [op |-> PathCall[cmd],
              args |-> <<CanvasPoint(ctm, NumberAt(tokens, i), NumberAt(tokens, i + 1), bx, by, pageH)>>]
      [] cmd = "B" ->
             [op |-> "CubeTo",
              args |-> <<CanvasPoint(ctm, NumberAt(tokens, i), NumberAt(tokens, i + 1), bx, by, pageH),
                         CanvasPoint(ctm, NumberAt(tokens, i + 2), NumberAt(tokens, i + 3), bx, by, pageH),
                         CanvasPoint(ctm, NumberAt(tokens, i + 4), NumberAt(tokens, i + 5), bx, by, pageH)>>]
      [] cmd = "Q" ->
             [op |-> "QuadTo",
              args |-> <<CanvasPoint(ctm, NumberAt(tokens, i), NumberAt(tokens, i + 1), bx, by, pageH),
                         CanvasPoint(ctm, NumberAt(tokens, i + 2), NumberAt(tokens, i + 3), bx, by, pageH)>>]
      [] cmd = "A" ->
             [op |-> "ArcTo",
              args |-> <<FMul(Whole(NumberAt(tokens, i)), Hypot(ctm.a, ctm.c)),
                         FMul(Whole(NumberAt(tokens, i + 1)), Hypot(ctm.b, ctm.d)),
                         FNeg(FAdd(Whole(NumberAt(tokens, i + 2)), RotationDegrees(ctm.b, ctm.a))),
                         ParseBool(tokens[i + 4]),
                         ~ParseBool(tokens[i + 5]),
                         CanvasPoint(ctm, NumberAt(tokens, i + 5), NumberAt(tokens, i + 6), bx, by, pageH)>>]

\* The token loop of buildPath from tokens[i] on (i from 0): the calls made
\* on the path so far, the number of turns of the loop, and whether a token
\* was read beyond the end of the list.
RECURSIVE BuildPathFrom(_, _, _, _, _, _, _, _)
BuildPathFrom(tokens, i, ops, steps, ctm, bx, by, pageH) ==
    IF i >= Len(tokens) THEN [ops |-> ops, steps |-> steps, panic |-> FALSE]
    ELSE IF tokens[i + 1] \in DOMAIN OperandCount
    THEN IF HasOperands(tokens, i + 1, OperandCount[tokens[i + 1]])
         THEN IF i + 1 + OperandCount[tokens[i + 1]] > Len(tokens)
              THEN [ops |-> ops, steps |-> steps + 1, panic |-> TRUE]
              ELSE BuildPathFrom(tokens, i + 1 + OperandCount[tokens[i + 1]], Append(ops, PathOp(tokens[i + 1], tokens, i + 1, ctm, bx, by, pageH)), steps + 1, ctm, bx, by, pageH)
         ELSE BuildPathFrom(tokens, i + 1, ops, steps + 1, ctm, bx, by, pageH)
    ELSE IF tokens[i + 1] = "C"
    THEN BuildPathFrom(tokens, i + 1, Append(ops, [op |-> "Close", args |-> <<>>]), steps + 1, ctm, bx, by, pageH)
    ELSE BuildPathFrom(tokens, i + 1, ops, steps + 1, ctm, bx, by, pageH)

\* buildPath.
BuildPath(obj, pageH, ctm) ==
    BuildPathFrom(Fields(obj.AbbreviatedData, 1), 0, <<>>, 0, ctm,
                  IF obj.Boundary # <<>> THEN Whole(ParseBox(obj.Boundary).box.X) ELSE Whole(0),
                  IF obj.Boundary # <<>> THEN Whole(ParseBox(obj.Boundary).box.Y) ELSE Whole(0),
                  pageH)

\* The segments AbbreviatedData is made of: operators with their operands,
\* the close, operators cut short, operators directly after an operator,
\* and tokens that are no operators.
PathSegments ==
    {<<"M", "1", "2">>, <<"S", "2", "1">>, <<"L", "3", "2">>,
     <<"B", "1", "2", "3", "2", "1", "0">>, <<"Q", "1", "2", "2", "1">>,
     <<"A", "2", "1", "30", "true", "0", "3", "2">>, <<"C">>,
     <<"M", "1">>, <<"B", "1", "2", "3">>, <<"A", "2", "1">>, <<"Q">>,
     <<"L", "M">>, <<"x">>, <<"1">>}

\* The tokens of the segments with white space between them.
RECURSIVE DataText(_, _)
DataText(segs, i) ==
    IF i > Len(segs) THEN <<>>
    ELSE LET spaced == [k \in 1..(2 * Len(segs[i])) |->
                            IF k % 2 = 1 THEN segs[i][(k + 1) \div 2] ELSE Sp]
         IN  spaced \o DataText(segs, i + 1)

PathData == {DataText(segs, 1) : segs \in SeqsOf(PathSegments, MaxSegs)}

\* The CTMs a path is built under: the unit matrix, a scaling, a quarter
\* turn, and a reflection with a shift.
PathCTMs ==
    {IdentityMatrix,
     Mat(Whole(2), Whole(0), Whole(0), Whole(2), Whole(0), Whole(0)),
     Mat(Whole(0), Whole(1), Whole(-1), Whole(0), Whole(5), Whole(0)),
     Mat(Whole(1), Whole(0), Whole(0), Whole(-1), Whole(0), Whole(3))}

PageHeight == Whole(297)

PathOf(data, boundary) == [AbbreviatedData |-> data, Boundary |-> boundary]

GmPathInit ==
    \E data \in PathData, ctm \in PathCTMs,
       boundary \in {<<>>, <<"1", Sp, "2", Sp, "30", Sp, "40">>} :
        GmIdle([obj |-> PathOf(data, boundary), pageH |-> PageHeight,
                ctm |-> ctm])

gmBuildPath ==
    /\ gmOp = "none"
    /\ gmOut' = BuildPath(gmIn.obj, gmIn.pageH, gmIn.ctm)
    /\ gmOp' = "buildPath"
    /\ UNCHANGED <<gmIn, NotGm>>

GmPathNext == gmBuildPath

\* The path calls the operator tokens stand for, from the token of index j
\* (from 1) on: one for every operator followed by at least as many tokens as
\* it has operands, one close for every C, nothing for any other token.
RECURSIVE CallsOfTokens(_, _)
CallsOfTokens(tokens, j) ==
    IF j > Len(tokens) THEN <<>>
    ELSE (IF tokens[j] \in DOMAIN OperandCount
          THEN (IF Len(tokens) - j >= OperandCount[tokens[j]]
                THEN <<PathCall[tokens[j]]>> ELSE <<>>)
          ELSE IF tokens[j] = "C" THEN <<"Close">> ELSE <<>>)
         \o CallsOfTokens(tokens, j + 1)

\* No operator that has its operands has an operator or a close among them.
OperandsAreNoOperators(tokens) ==
    \A j \in 1..Len(tokens) :
        tokens[j] \in DOMAIN OperandCount
            /\ Len(tokens) - j >= OperandCount[tokens[j]]
        => \A k \in 1..OperandCount[tokens[j]] :
               tokens[j + k] \notin DOMAIN PathCall

\* C26: buildPath ends after at most one turn per token, reads no token
\* beyond the end of the list, and makes one path call for every operator
\* token M, S, L, B, Q, A followed by at least 2, 2, 2, 6, 4, 7 tokens, one
\* close for every C, and none for any other token or for an operator with
\* fewer tokens after it.
C26_OneCallPerOperator ==
    gmOp = "buildPath" =>
        /\ ~gmOut.panic
        /\ gmOut.steps <= Len(Fields(gmIn.obj.AbbreviatedData, 1))
        /\ [k \in 1..Len(gmOut.ops) |-> gmOut.ops[k].op]
               = CallsOfTokens(Fields(gmIn.obj.AbbreviatedData, 1), 1)

\* The same for the paths in which no operator has an operator among its
\* operands.
C26_OneCallPerOperatorRead ==
    gmOp = "buildPath"
        /\ OperandsAreNoOperators(Fields(gmIn.obj.AbbreviatedData, 1))
        => /\ ~gmOut.panic
           /\ gmOut.steps <= Len(Fields(gmIn.obj.AbbreviatedData, 1))
           /\ [k \in 1..Len(gmOut.ops) |-> gmOut.ops[k].op]
                  = CallsOfTokens(Fields(gmIn.obj.AbbreviatedData, 1), 1)

\* Ending, and reading within the list, on every path.
C26_EndsWithinTokens ==
    gmOp = "buildPath" =>
        /\ ~gmOut.panic
        /\ gmOut.steps <= Len(Fields(gmIn.obj.AbbreviatedData, 1))

\* A call made on the canvas context.
Call(name, arg) == [call |-> name, arg |-> arg]

\* A PathObject with its drawing attributes: Fill and Stroke are "" when the
\* attribute is absent (a nil *bool), LineWidth and DashOffset are numbers,
\* FillColor and StrokeColor name a colour element or are NoColor, DashPattern
\* is the text of the attribute and CTM the list parseFloats gives for it.
DrawnPath(fill, stroke, lineWidth, fillColor, strokeColor, drawParam, style) ==
    [Fill |-> fill, Stroke |-> stroke, LineWidth |-> lineWidth,
     FillColor |-> fillColor, StrokeColor |-> strokeColor,
     DrawParam |-> drawParam, Cap |-> style.Cap, Join |-> style.Join,
     DashPattern |-> style.DashPattern, DashOffset |-> style.DashOffset,
     CTM |-> style.CTM, Boundary |-> <<"1", Sp, "2", Sp, "30", Sp, "40">>,
     AbbreviatedData |-> <<"M", Sp, "1", Sp, "2", Sp, "L", Sp, "3", Sp, "2", Sp, "C">>]

\* What getDrawParam(obj.DrawParam, nil) gives: nil, or the merged DrawParam.
PathDrawParam(lineWidth, fillColor, strokeColor, cap, join, dashPattern, dashOffset) ==
    [nil |-> FALSE, LineWidth |-> lineWidth, FillColor |-> fillColor,
     StrokeColor |-> strokeColor, Cap |-> cap, Join |-> join,
     DashPattern |-> dashPattern, DashOffset |-> dashOffset]

\* Whether renderPath asks for the DrawParam, and has one.
HasDrawParam(obj, dp) == obj.DrawParam # "" /\ ~dp.nil

\* The line width renderPath strokes with: the inherited default or 0.353,
\* then the DrawParam's, then the object's; and the one that lets the
\* DrawParam's width win over the object's.
PathLineWidthParamLast(obj, dp, defaultLW) ==
    LET inherited == IF defaultLW = DecInt(0) THEN Dec(353, -3) ELSE defaultLW
        own == IF obj.LineWidth.m > 0 THEN obj.LineWidth ELSE inherited
    IN  IF HasDrawParam(obj, dp) /\ dp.LineWidth.m > 0 THEN dp.LineWidth ELSE own
PathLineWidth(obj, dp, defaultLW) ==
    LET inherited == IF defaultLW = DecInt(0) THEN Dec(353, -3) ELSE defaultLW
        param == IF HasDrawParam(obj, dp) /\ dp.LineWidth.m > 0
                 THEN dp.LineWidth ELSE inherited
    IN  IF obj.LineWidth.m > 0 THEN obj.LineWidth ELSE param

\* The fill and the stroke colour: the inherited default, then the
\* DrawParam's, then the object's.
PathFillColor(obj, dp, defaultFill) ==
    LET param == IF HasDrawParam(obj, dp) /\ dp.FillColor # NoColor
                 THEN ColorOf(dp.FillColor) ELSE defaultFill
    IN  IF obj.FillColor # NoColor THEN ColorOf(obj.FillColor) ELSE param
PathStrokeColor(obj, dp, defaultStroke) ==
    LET param == IF HasDrawParam(obj, dp) /\ dp.StrokeColor # NoColor
                 THEN ColorOf(dp.StrokeColor) ELSE defaultStroke
    IN  IF obj.StrokeColor # NoColor THEN ColorOf(obj.StrokeColor) ELSE param

\* The line cap and the line join.
PathCap(obj, dp) ==
    IF obj.Cap # ""
    THEN (IF obj.Cap = "Round" THEN "RoundCap"
          ELSE IF obj.Cap = "Square" THEN "SquareCap" ELSE "ButtCap")
    ELSE IF HasDrawParam(obj, dp) /\ dp.Cap = "Round" THEN "RoundCap"
    ELSE IF HasDrawParam(obj, dp) /\ dp.Cap = "Square" THEN "SquareCap"
    ELSE "ButtCap"
PathJoin(obj, dp) ==
    IF obj.Join # ""
    THEN (IF obj.Join = "Round" THEN "RoundJoin"
          ELSE IF obj.Join = "Bevel" THEN "BevelJoin" ELSE "MiterJoin")
    ELSE IF HasDrawParam(obj, dp) /\ dp.Join = "Round" THEN "RoundJoin"
    ELSE IF HasDrawParam(obj, dp) /\ dp.Join = "Bevel" THEN "BevelJoin"
    ELSE "MiterJoin"

\* The dash pattern and its offset.
PathDashes(obj, dp) ==
    IF obj.DashPattern # <<>>
    THEN [pattern |-> ParseFloats(obj.DashPattern), offset |-> obj.DashOffset]
    ELSE IF HasDrawParam(obj, dp) /\ dp.DashPattern # <<>>
    THEN [pattern |-> ParseFloats(dp.DashPattern), offset |-> dp.DashOffset]
    ELSE [pattern |-> <<>>, offset |-> DecInt(0)]

\* The calls of the fill, and of the stroke, of the path p.
FillCalls(obj, fillColor, p) ==
    IF obj.Fill # "false" /\ ~fillColor.nil
    THEN <<Call("SetFillColor", fillColor), Call("DrawPath", p)>>
    ELSE <<>>
StrokeCalls(obj, strokeColor, lineWidth, cap, join, dashes, p) ==
    IF obj.Stroke # "false"
    THEN <<Call("SetStrokeColor", IF strokeColor.nil THEN Transparent ELSE strokeColor),
           Call("SetStrokeWidth", lineWidth),
           Call("SetStrokeCapper", cap),
           Call("SetStrokeJoiner", join)>>
         \o (IF Len(dashes.pattern) > 0 THEN <<Call("SetDashes", dashes)>> ELSE <<>>)
         \o <<Call("DrawPath", p)>>
    ELSE <<>>

\* renderPath: the calls it makes on the context, in order.  parentCTM is a
\* Matrix or Nil.
PathCTM(obj, parentCTM) ==
    IF parentCTM # Nil THEN Multiply(parentCTM, NewMatrix(obj.CTM))
    ELSE NewMatrix(obj.CTM)
RenderPathCalls(obj, dp, pageH, defaultFill, defaultStroke, defaultLW, parentCTM) ==
    <<Call("Push", <<>>)>>
    \o FillCalls(obj, PathFillColor(obj, dp, defaultFill), BuildPath(obj, pageH, PathCTM(obj, parentCTM)))
    \o StrokeCalls(obj, PathStrokeColor(obj, dp, defaultStroke), PathLineWidth(obj, dp, defaultLW), PathCap(obj, dp), PathJoin(obj, dp), PathDashes(obj, dp), BuildPath(obj, pageH, PathCTM(obj, parentCTM)))
    \o <<Call("Pop", <<>>)>>

\* The path objects, the DrawParams and the inherited defaults of the
\* documents.
PathStyles ==
    {[Cap |-> "", Join |-> "", DashPattern |-> <<>>, DashOffset |-> DecInt(0), CTM |-> <<>>],
     [Cap |-> "Square", Join |-> "Round", DashPattern |-> <<"g", " ", "2", " ", "1">>,
      DashOffset |-> DecInt(1),
      CTM |-> <<Whole(2), Whole(0), Whole(0), Whole(2), Whole(1), Whole(0)>>]}
DrawnPaths ==
    {DrawnPath(fill, stroke, lw, fc, sc, id, style) :
        fill \in {"", "true", "false"}, stroke \in {"", "true", "false"},
        lw \in {DecInt(0), DecInt(2), DecInt(-1)},
        fc \in {NoColor, "255 0 0"}, sc \in {NoColor, "0 0 255/40"},
        id \in {"", "7"}, style \in PathStyles}
PathDrawParams ==
    {[PathDrawParam(DecInt(0), NoColor, NoColor, "", "", <<>>, DecInt(0)) EXCEPT !.nil = TRUE],
     PathDrawParam(DecInt(0), NoColor, NoColor, "", "", <<>>, DecInt(0)),
     PathDrawParam(Dec(5, -1), "0 0 0", NoColor, "Round", "", <<"3", ",", "1">>, DecInt(2)),
     PathDrawParam(DecInt(0), NoColor, "128 128", "", "Bevel", <<>>, DecInt(0))}
DefaultWidths == {DecInt(0), Dec(75, -2)}
\* The object with a CTM lies in a composite unit that has a CTM, the other
\* on the page.
ParentCTMOf(obj) ==
    IF obj.CTM = <<>> THEN Nil
    ELSE Mat(Whole(1), Whole(0), Whole(0), Whole(-1), Whole(0), Whole(3))

GmDrawInit ==
    \E obj \in DrawnPaths, dp \in PathDrawParams,
       defaultFill \in {NilColor, Red}, defaultStroke \in {NilColor, White},
       defaultLW \in DefaultWidths :
        GmIdle([obj |-> obj, dp |-> dp, pageH |-> PageHeight,
                defaultFill |-> defaultFill, defaultStroke |-> defaultStroke,
                defaultLW |-> defaultLW,
                parentCTM |-> ParentCTMOf(obj)])

gmRenderPath ==
    /\ gmOp = "none"
    /\ gmOut' = RenderPathCalls(gmIn.obj, gmIn.dp, gmIn.pageH, gmIn.defaultFill, gmIn.defaultStroke, gmIn.defaultLW, gmIn.parentCTM)
    /\ gmOp' = "renderPath"
    /\ UNCHANGED <<gmIn, NotGm>>

GmDrawNext == gmRenderPath

\* What the drawn object, its DrawParam and the inherited defaults define.
DrawnObj == gmIn.obj
DrawnParam == gmIn.dp
ParamApplies == DrawnObj.DrawParam # "" /\ ~DrawnParam.nil
FillDefined ==
    \/ DrawnObj.FillColor # NoColor
    \/ ParamApplies /\ DrawnParam.FillColor # NoColor
    \/ ~gmIn.defaultFill.nil
StrokeDefined ==
    \/ DrawnObj.StrokeColor # NoColor
    \/ ParamApplies /\ DrawnParam.StrokeColor # NoColor
    \/ ~gmIn.defaultStroke.nil
EffectiveFill ==
    IF DrawnObj.FillColor # NoColor THEN ColorOf(DrawnObj.FillColor)
    ELSE IF ParamApplies /\ DrawnParam.FillColor # NoColor
    THEN ColorOf(DrawnParam.FillColor)
    ELSE gmIn.defaultFill
EffectiveStroke ==
    IF DrawnObj.StrokeColor # NoColor THEN ColorOf(DrawnObj.StrokeColor)
    ELSE IF ParamApplies /\ DrawnParam.StrokeColor # NoColor
    THEN ColorOf(DrawnParam.StrokeColor)
    ELSE IF ~gmIn.defaultStroke.nil THEN gmIn.defaultStroke
    ELSE Transparent
ChosenWidth ==
    IF DrawnObj.LineWidth.m > 0 THEN DrawnObj.LineWidth
    ELSE IF ParamApplies /\ DrawnParam.LineWidth.m > 0 THEN DrawnParam.LineWidth
    ELSE IF gmIn.defaultLW # DecInt(0) THEN gmIn.defaultLW
    ELSE Dec(353, -3)
BuiltPath == BuildPath(DrawnObj, gmIn.pageH, PathCTM(DrawnObj, gmIn.parentCTM))

\* The positions in the calls of renderPath of the calls of one name; a fill
\* is SetFillColor followed by DrawPath, a stroke is SetStrokeColor followed,
\* after the stroke settings, by DrawPath.
CallsNamed(name) == {k \in 1..Len(gmOut) : gmOut[k].call = name}
FillsAt == {k \in CallsNamed("SetFillColor") : gmOut[k + 1] = Call("DrawPath", BuiltPath)}
StrokesAt == {k \in CallsNamed("SetStrokeColor") : \E d \in CallsNamed("DrawPath") : d > k /\ gmOut[d].arg = BuiltPath /\ \A j \in (k + 1)..(d - 1) : gmOut[j].call \in {"SetStrokeWidth", "SetStrokeCapper", "SetStrokeJoiner", "SetDashes"}}

\* C27: renderPath fills the built path exactly when Fill is unset or true
\* and a fill colour is defined by the object, else its DrawParam, else the
\* inherited default, and fills in that colour; it strokes the built path
\* exactly when Stroke is unset or true, in the line width of the object,
\* else of the DrawParam, else the inherited default, else 0.353 (a width
\* counts when it is positive, the default when it is not 0), and in the
\* transparent colour when no stroke colour is defined; a fill comes before
\* the stroke, and nothing else is drawn.
C27_FillThenStroke ==
    gmOp = "renderPath" =>
        /\ (FillsAt # {}) <=> (DrawnObj.Fill # "false" /\ FillDefined)
        /\ CallsNamed("SetFillColor") = FillsAt
        /\ \A k \in FillsAt : gmOut[k].arg = EffectiveFill
        /\ (StrokesAt # {}) <=> (DrawnObj.Stroke # "false")
        /\ CallsNamed("SetStrokeColor") = StrokesAt
        /\ \A k \in StrokesAt : gmOut[k].arg = EffectiveStroke
        /\ \A k \in StrokesAt : gmOut[k + 1] = Call("SetStrokeWidth", ChosenWidth)
        /\ CallsNamed("SetStrokeWidth") = {k + 1 : k \in StrokesAt}
        /\ \A i \in FillsAt, j \in StrokesAt : i < j
        /\ Cardinality(FillsAt) <= 1 /\ Cardinality(StrokesAt) <= 1
        /\ Cardinality(CallsNamed("DrawPath")) = Cardinality(FillsAt) + Cardinality(StrokesAt)

\* A path whose DrawParam gives the line width and whose fill colour is the
\* inherited one has been filled and then stroked, the stroke transparent.
C27_Witness ==
    /\ gmOp = "renderPath"
    /\ FillsAt # {} /\ StrokesAt # {}
    /\ DrawnObj.FillColor = NoColor /\ FillDefined
    /\ ~StrokeDefined
    /\ DrawnObj.LineWidth.m <= 0 /\ ParamApplies
    /\ ChosenWidth = DrawnParam.LineWidth
    /\ gmIn.defaultLW # DecInt(0)
    /\ Len(BuiltPath.ops) > 0

(***************************************************************************)
(* Specifications                                                          *)
(***************************************************************************)

DPParked == DPIdle(<<>>)
FtParked == FtIdle(<<>>, FALSE, FALSE, EmptyMap, 0, 0)
GmParked == GmIdle(<<>>)
PdfParked == PdfIdle(FALSE, <<>>, FALSE)

RdParked == RdIdle([root |-> "nobody", DocumentRes |-> "", PublicRes |-> "",
                    Signatures |-> [list |-> "none", sigs |-> <<>>]])

RnParked == RnIdle(ReaderOf(FALSE, EmptyMap, EmptyMap, EmptyMap),
                   PageOf("", AreaOf(<<>>, <<>>, <<>>), <<>>, <<>>))

InitDrawParam ==
    DPInit /\ PdfParked /\ RdParked
    /\ RnParked /\ FtParked /\ GmParked
SpecDrawParam == InitDrawParam /\ [][DPNext]_vars

InitPdf ==
    PdfInit /\ DPParked /\ RdParked
    /\ RnParked /\ FtParked /\ GmParked
SpecPdf == InitPdf /\ [][PdfNext]_vars

InitDoc ==
    RdInit /\ DPParked /\ PdfParked
    /\ RnParked /\ FtParked /\ GmParked
SpecDoc == InitDoc /\ [][RdNextSequential]_vars
SpecDocConcurrent == InitDoc /\ [][RdNextConcurrent]_vars

InitRender ==
    RnPageInit /\ DPParked /\ PdfParked
    /\ RdParked /\ FtParked /\ GmParked
SpecRender == InitRender /\ [][RnPageNext]_vars

InitPageBox ==
    RnBoxInit /\ DPParked /\ PdfParked
    /\ RdParked /\ FtParked /\ GmParked
SpecPageBox == InitPageBox /\ [][RnBoxNext]_vars

InitFont ==
    RnFontInit /\ DPParked /\ PdfParked
    /\ RdParked /\ FtParked /\ GmParked
SpecFont == InitFont /\ [][RnFontNext]_vars

InitCharString ==
    FtCharStringInit /\ DPParked /\ PdfParked
    /\ RdParked /\ RnParked /\ GmParked
SpecCharString == InitCharString /\ [][FtCharStringNext]_vars

InitSerialize ==
    FtTablesInit /\ DPParked /\ PdfParked
    /\ RdParked /\ RnParked /\ GmParked
SpecSerialize == InitSerialize /\ [][FtTablesNext]_vars

InitFixFont ==
    FtFontInit /\ DPParked /\ PdfParked
    /\ RdParked /\ RnParked /\ GmParked
SpecFixFont == InitFixFont /\ [][FtFontNext]_vars

InitWrap ==
    FtWrapInit /\ DPParked /\ PdfParked
    /\ RdParked /\ RnParked /\ GmParked
SpecWrap == InitWrap /\ [][FtWrapNext]_vars

InitMatrix ==
    GmMatrixInit /\ DPParked /\ PdfParked
    /\ RdParked /\ RnParked /\ FtParked
SpecMatrix == InitMatrix /\ [][GmMatrixNext]_vars

InitFloats ==
    GmFloatsInit /\ DPParked /\ PdfParked
    /\ RdParked /\ RnParked /\ FtParked
SpecFloats == InitFloats /\ [][GmFloatsNext]_vars

InitText ==
    GmTextInit /\ DPParked /\ PdfParked
    /\ RdParked /\ RnParked /\ FtParked
SpecText == InitText /\ [][GmTextNext]_vars

InitPath ==
    GmPathInit /\ DPParked /\ PdfParked
    /\ RdParked /\ RnParked /\ FtParked
SpecPath == InitPath /\ [][GmPathNext]_vars

InitDraw ==
    GmDrawInit /\ DPParked /\ PdfParked
    /\ RdParked /\ RnParked /\ FtParked
SpecDraw == InitDraw /\ [][GmDrawNext]_vars

InitRepair ==
    FtRepairInit /\ DPParked /\ PdfParked
    /\ RdParked /\ RnParked /\ GmParked
SpecRepair == InitRepair /\ [][FtRepairNext]_vars

InitDict ==
    FtDictInit /\ DPParked /\ PdfParked
    /\ RdParked /\ RnParked /\ GmParked
SpecDict == InitDict /\ [][FtDictNext]_vars

InitSanitize ==
    FtSanitizeInit /\ DPParked /\ PdfParked
    /\ RdParked /\ RnParked /\ GmParked
SpecSanitize == InitSanitize /\ [][FtSanitizeNext]_vars

=============================================================================
